---- MODULE Spec2Model ----
(***************************************************************************)
(* Echomindr: keyword extraction, the serving handlers of echomindr_api.py *)
(* (search, get_moment, similar, situation_match) and the URL/timestamp     *)
(* derivation of echomindr_build_db.py.                                     *)
(*                                                                         *)
(* Text is a sequence of one-character strings.  Each group of variables   *)
(* belongs to one specification:                                           *)
(*   SpecKeywords  extract_keywords on bounded texts                       *)
(*   SpecUrl       parse_timestamp_to_seconds / build_url_at_moment        *)
(*   SpecQuery     search and situation_match against a store              *)
(*   SpecSimilar   get_moment and similar against a store                  *)
(*   SpecAdmin     require_admin                                           *)
(*   SpecBuild     build_db and build_sample_db                            *)
(*   SpecServe     concurrent handlers and the request log                 *)
(*   SpecMcp       the agent tools of echomindr_mcp.py                     *)
(*   SpecSource    resolve_source on one moment and its meta.json          *)
(***************************************************************************)
EXTENDS Integers, Sequences, FiniteSets, TLC

VARIABLES
    kwPc, kwText, kwOut, kwAgain,        \* extract_keywords: input, output, re-run
    urlPc, urlIn, tsIn, urlOut,          \* build_url_at_moment: inputs and result
    store,                               \* rows of the moments table, in rowid order
    req, resp,                           \* last request served and its outcome
    ADMIN_TOKEN, authorization, adminOut, \* admin gate: configured token, header, outcome
    bMode, episodes,                     \* build: entry point, the files it reads
    bPc, bNext,                          \* build: position, next episode directory
    txn, moments_for_fts, stats,         \* build: open transaction, collected index rows, counters
    disk,                                \* build: committed content of echomindr.db
    handlers,                            \* serving: the handler of each slot
    threads, sink, failed,               \* log threads running, rows of request_logs, failed writes
    tool, http, toolOut,                 \* agent tool: the call, the request it sends, its result
    srcMoment, srcMeta, srcOut           \* resolve_source: a moment, its meta.json, the result

kwVars  == <<kwPc, kwText, kwOut, kwAgain>>
urlVars == <<urlPc, urlIn, tsIn, urlOut>>
apiVars == <<store, req, resp>>
adminVars == <<ADMIN_TOKEN, authorization, adminOut>>
serveVars == <<handlers, threads, sink, failed>>
mcpVars == <<tool, http, toolOut>>
srcVars == <<srcMoment, srcMeta, srcOut>>
buildVars == <<bMode, episodes, bPc, bNext, txn, moments_for_fts, stats, disk>>
vars    == <<kwPc, kwText, kwOut, kwAgain, urlPc, urlIn, tsIn, urlOut, store, req, resp,
             ADMIN_TOKEN, authorization, adminOut,
             bMode, episodes, bPc, bNext, txn, moments_for_fts, stats, disk,
             handlers, threads, sink, failed, tool, http, toolOut,
             srcMoment, srcMeta, srcOut>>

\* ------------------------------------------------------------------ bounds
MaxTextLen == 5      \* longest enumerated input text of extract_keywords
MaxTsLen == 5        \* longest enumerated timestamp string
MaxRows == 3         \* most rows in the moments table
MaxTokenLen == 2     \* longest enumerated admin token
MaxEpisodes == 2     \* most episode directories of a build
MaxLogWrites == 2    \* most log threads started in a run

\* ------------------------------------------------------------- text helpers
\* Python None / SQL NULL where a text is expected: a one-piece text that no
\* string of characters equals
NULL == <<"NULL">>

LowerLetters == <<"a","b","c","d","e","f","g","h","i","j","k","l","m",
                  "n","o","p","q","r","s","t","u","v","w","x","y","z">>
UpperLetters == <<"A","B","C","D","E","F","G","H","I","J","K","L","M",
                  "N","O","P","Q","R","S","T","U","V","W","X","Y","Z">>
Digits == <<"0","1","2","3","4","5","6","7","8","9">>
\* the characters str.strip() removes
Whitespace == {" ", "\t", "\n", "\r"}

Range(s) == {s[i] : i \in DOMAIN s}

\* str.lower() of one character
LowerChar(c) ==
    IF \E i \in DOMAIN UpperLetters : UpperLetters[i] = c
    THEN LowerLetters[CHOOSE i \in DOMAIN UpperLetters : UpperLetters[i] = c]
    ELSE c

\* str.lower()
Lower(s) == [i \in DOMAIN s |-> LowerChar(s[i])]

\* str.strip(chars): drop leading and trailing characters that are in chars
RECURSIVE LStrip(_, _)
LStrip(s, chars) ==
    IF s # <<>> /\ Head(s) \in chars THEN LStrip(Tail(s), chars) ELSE s

RECURSIVE RStrip(_, _)
RStrip(s, chars) ==
    IF s # <<>> /\ s[Len(s)] \in chars
    THEN RStrip(SubSeq(s, 1, Len(s) - 1), chars) ELSE s

Strip(s, chars) == RStrip(LStrip(s, chars), chars)

\* sep.join(parts)
RECURSIVE Join(_, _)
Join(parts, sep) ==
    IF parts = <<>> THEN <<>>
    ELSE IF Len(parts) = 1 THEN parts[1]
    ELSE parts[1] \o sep \o Join(Tail(parts), sep)

\* every text over alphabet of length at most n
TextsUpTo(alphabet, n) == UNION {[1..k -> alphabet] : k \in 0..n}

\* ------------------------------------------------------- keyword extractor
STOPWORDS == {
    <<"a">>, <<"a","b","o","u","t">>, <<"a","b","o","v","e">>, <<"a","f","t","e","r">>,
    <<"a","g","a","i","n">>, <<"a","l","l">>, <<"a","m">>, <<"a","n">>, <<"a","n","d">>,
    <<"a","r","e">>, <<"a","s">>, <<"a","t">>, <<"b","e">>, <<"b","e","c","a","u","s","e">>,
    <<"b","e","e","n">>, <<"b","e","f","o","r","e">>, <<"b","e","i","n","g">>,
    <<"b","e","l","o","w">>, <<"b","e","t","w","e","e","n">>, <<"b","o","t","h">>,
    <<"b","u","t">>, <<"b","y">>, <<"c","a","n">>,
    <<"c","o","n","s","i","d","e","r","i","n","g">>, <<"c","o","u","l","d">>,
    <<"d","a","r","e">>, <<"d","i","d">>, <<"d","o">>, <<"d","o","e","s">>,
    <<"d","o","i","n","g">>, <<"d","o","n">>, <<"d","o","n","t">>, <<"d","o","w","n">>,
    <<"d","u","r","i","n","g">>, <<"e","a","c","h">>, <<"f","e","w">>, <<"f","o","r">>,
    <<"f","r","o","m">>, <<"f","u","r","t","h","e","r">>, <<"g","e","t">>,
    <<"g","o","i","n","g">>, <<"g","o","t">>, <<"h","a","d">>, <<"h","a","s">>,
    <<"h","a","v","e">>, <<"h","a","v","i","n","g">>, <<"h","e","r","e">>, <<"h","o","w">>,
    <<"i">>, <<"i","f">>, <<"i","m">>, <<"i","n">>, <<"i","n","t","o">>, <<"i","s">>,
    <<"i","t">>, <<"i","t","s">>, <<"j","u","s","t">>, <<"k","n","o","w">>,
    <<"l","i","k","e">>, <<"m","a","y">>, <<"m","e">>, <<"m","i","g","h","t">>,
    <<"m","o","r","e">>, <<"m","o","s","t">>, <<"m","y">>, <<"n","e","e","d">>, <<"n","o">>,
    <<"n","o","r">>, <<"n","o","t">>, <<"o","f">>, <<"o","f","f">>, <<"o","n">>,
    <<"o","n","c","e">>, <<"o","n","l","y">>, <<"o","r">>, <<"o","t","h","e","r">>,
    <<"o","u","g","h","t">>, <<"o","u","r">>, <<"o","u","t">>, <<"o","v","e","r">>,
    <<"o","w","n">>, <<"r","e","a","l","l","y">>, <<"s">>, <<"s","a","m","e">>,
    <<"s","h","a","l","l">>, <<"s","h","o","u","l","d">>, <<"s","o">>, <<"s","o","m","e">>,
    <<"s","u","c","h">>, <<"s","u","r","e">>, <<"t">>, <<"t","h","a","n">>,
    <<"t","h","a","t">>, <<"t","h","e">>, <<"t","h","e","n">>, <<"t","h","e","r","e">>,
    <<"t","h","e","s","e">>, <<"t","h","i","n","k">>, <<"t","h","i","s">>,
    <<"t","h","o","s","e">>, <<"t","h","r","o","u","g","h">>, <<"t","o">>, <<"t","o","o">>,
    <<"u","n","d","e","r">>, <<"u","n","t","i","l">>, <<"u","p">>, <<"u","s","e","d">>,
    <<"v","e","r","y">>, <<"w","a","n","t">>, <<"w","a","s">>, <<"w","e">>,
    <<"w","e","r","e">>, <<"w","h","a","t">>, <<"w","h","e","n">>, <<"w","h","e","r","e">>,
    <<"w","h","e","t","h","e","r">>, <<"w","h","i","c","h">>, <<"w","h","i","l","e">>,
    <<"w","h","o">>, <<"w","h","o","m">>, <<"w","h","y">>, <<"w","i","l","l">>,
    <<"w","i","t","h">>, <<"w","o","u","l","d">>
}

\* the character class [a-zA-Z'] of the token pattern
IsWordChar(c) == c \in Range(LowerLetters) \cup Range(UpperLetters) \cup {"'"}

\* re.findall(r"[a-zA-Z']{3,}", s): the maximal runs of word characters that
\* are at least three long, left to right
RECURSIVE FindAll(_, _)
FindAll(s, run) ==
    IF s = <<>>
    THEN IF Len(run) >= 3 THEN <<run>> ELSE <<>>
    ELSE IF IsWordChar(Head(s))
         THEN FindAll(Tail(s), Append(run, Head(s)))
         ELSE (IF Len(run) >= 3 THEN <<run>> ELSE <<>>) \o FindAll(Tail(s), <<>>)

\* the filter of the comprehension: it sees the word before it is stripped
KeepWord(w) == w \notin STOPWORDS /\ Len(w) >= 3

\* [w.strip("'") for w in words if w not in STOPWORDS and len(w) >= 3]
RECURSIVE FilterStrip(_)
FilterStrip(words) ==
    IF words = <<>> THEN <<>>
    ELSE (IF KeepWord(Head(words)) THEN <<Strip(Head(words), {"'"})>> ELSE <<>>)
         \o FilterStrip(Tail(words))

\* the seen/unique loop: first occurrences, in order
RECURSIVE Dedupe(_, _)
Dedupe(kws, seen) ==
    IF kws = <<>> THEN <<>>
    ELSE IF Head(kws) \in seen THEN Dedupe(Tail(kws), seen)
    ELSE <<Head(kws)>> \o Dedupe(Tail(kws), seen \cup {Head(kws)})

extract_keywords(text) == Dedupe(FilterStrip(FindAll(Lower(text), <<>>)), {})

\* inputs: every text over a small alphabet, and some longer sample sentences
KwAlphabet == {"o", "t", "T", "'", " "}

SampleTexts == {
    <<"t","h","e"," ","a","n","d"," ","b","u","t">>,
    <<"d","o","n","'","t"," ","k","n","o","w">>,
    <<"t","o","t"," ","o","t","t","o"," ","t","o","t">>,
    <<"'","t","h","e","'"," ","t","o","t">>
}

KwInit ==
    /\ kwPc = "start"
    /\ kwText \in TextsUpTo(KwAlphabet, MaxTextLen) \cup SampleTexts
    /\ kwOut = <<>>
    /\ kwAgain = <<>>

KwIdle == kwPc = "idle" /\ kwText = <<>> /\ kwOut = <<>> /\ kwAgain = <<>>

\* keywords = extract_keywords(text)
Extract ==
    /\ kwPc = "start"
    /\ kwOut' = extract_keywords(kwText)
    /\ kwPc' = "extracted"
    /\ UNCHANGED <<kwText, kwAgain, urlVars, apiVars, adminVars, buildVars, serveVars, mcpVars, srcVars>>

\* extract_keywords(" ".join(keywords)): the extractor run on its own output
ReExtract ==
    /\ kwPc = "extracted"
    /\ kwAgain' = extract_keywords(Join(kwOut, <<" ">>))
    /\ kwPc' = "done"
    /\ UNCHANGED <<kwText, kwOut, urlVars, apiVars, adminVars, buildVars, serveVars, mcpVars, srcVars>>

\* ------------------------------------------- timestamped URL (ingestion)
\* A JSON value read from a moments file with dict.get: a string, a number,
\* null or a list of strings.  kind tells which; chars, num or items holds it.
JStr(chars)  == [kind |-> "str",  chars |-> chars, num |-> 0, items |-> <<>>]
JNum(n)      == [kind |-> "num",  chars |-> <<>>,  num |-> n, items |-> <<>>]
JNull        == [kind |-> "null", chars |-> <<>>,  num |-> 0, items |-> <<>>]
JList(items) == [kind |-> "list", chars |-> <<>>,  num |-> 0, items |-> items]

\* Python truthiness of such a value ("if not ts", "tags or []")
Truthy(v) ==
    CASE v.kind = "str"  -> v.chars # <<>>
      [] v.kind = "num"  -> v.num # 0
      [] v.kind = "list" -> v.items # <<>>
      [] v.kind = "null" -> FALSE

\* a result: a value, None, or an exception that leaves the function
Value(v)   == [kind |-> "value", val |-> v]
None       == [kind |-> "none", val |-> <<>>]
Raise(exc) == [kind |-> "raise", val |-> <<exc>>]

\* s.split(sep) for a one-character separator
RECURSIVE Split(_, _, _)
Split(s, sep, cur) ==
    IF s = <<>> THEN <<cur>>
    ELSE IF Head(s) = sep THEN <<cur>> \o Split(Tail(s), sep, <<>>)
    ELSE Split(Tail(s), sep, Append(cur, Head(s)))

DigitVal(c) == (CHOOSE i \in DOMAIN Digits : Digits[i] = c) - 1

RECURSIVE DigitsVal(_, _)
DigitsVal(ds, acc) ==
    IF ds = <<>> THEN acc ELSE DigitsVal(Tail(ds), 10 * acc + DigitVal(Head(ds)))

\* int(p) for a string p: surrounding whitespace is ignored, one sign is
\* allowed, the rest must be a non-empty run of digits; anything else is a
\* ValueError
IntOfStr(p) ==
    LET t == Strip(p, Whitespace)
        signed == t # <<>> /\ Head(t) \in {"-", "+"}
        ds == IF signed THEN Tail(t) ELSE t
    IN  IF ds # <<>> /\ \A i \in DOMAIN ds : ds[i] \in Range(Digits)
        THEN Value(IF signed /\ Head(t) = "-"
                   THEN 0 - DigitsVal(ds, 0) ELSE DigitsVal(ds, 0))
        ELSE Raise("ValueError")

\* str(n) for an integer
RECURSIVE NatStr(_)
NatStr(n) == IF n < 10 THEN <<Digits[n + 1]>>
             ELSE Append(NatStr(n \div 10), Digits[(n % 10) + 1])

IntStr(n) == IF n < 0 THEN <<"-">> \o NatStr(0 - n) ELSE NatStr(n)

\* the seconds of the parsed parts: two parts are m:s, three are h:m:s
SecondsOfParts(parts) ==
    IF Len(parts) = 2 THEN Value(parts[1] * 60 + parts[2])
    ELSE IF Len(parts) = 3
         THEN Value(parts[1] * 3600 + parts[2] * 60 + parts[3])
         ELSE None

\* ts.strip() sits outside the try block: a value without that method (a
\* number) leaves the function with AttributeError.  Inside the try block a
\* ValueError of int() is swallowed and the function returns None.
parse_timestamp_to_seconds(ts) ==
    IF ~Truthy(ts) THEN None
    ELSE IF ts.kind # "str" THEN Raise("AttributeError")
    ELSE LET parts == Split(Strip(ts.chars, Whitespace), ":", <<>>)
             ints  == [i \in DOMAIN parts |-> IntOfStr(parts[i])]
         IN  IF \E i \in DOMAIN ints : ints[i].kind = "raise" THEN None
             ELSE SecondsOfParts([i \in DOMAIN ints |-> ints[i].val])

\* A URL is a text whose characters are coarse pieces; the watch-URL prefix
\* "https://www.youtube.com/watch?v=" is three of them.
YouTubePrefix == <<"https://www.youtube.com/watch", "?", "v=">>

StartsWith(s, prefix) ==
    Len(s) >= Len(prefix) /\ SubSeq(s, 1, Len(prefix)) = prefix

\* base_url is NULL (None) or a URL text
build_url_at_moment(base_url, timestamp) ==
    IF base_url = NULL \/ base_url = <<>> \/ ~StartsWith(base_url, YouTubePrefix)
    THEN None
    ELSE LET seconds == parse_timestamp_to_seconds(timestamp)
             sep == IF "?" \in Range(base_url) THEN "&" ELSE "?"
         IN  CASE seconds.kind = "raise" -> seconds
               [] seconds.kind = "none"  -> Value(base_url)
               [] seconds.kind = "value" ->
                    Value(base_url \o <<sep, "t=">> \o IntStr(seconds.val) \o <<"s">>)

TsAlphabet == {"0", "2", ":", "x", " "}

SampleTimestamps == {
    <<"3",":","2","6">>,
    <<"1",":","2","3",":","4","5">>,
    <<"1",":","0","2",":","0","3">>,
    <<"-","2",":","0","0">>,
    <<"1",":","2",":","3",":","4">>
}

TimestampValues ==
    {JStr(t) : t \in TextsUpTo(TsAlphabet, MaxTsLen) \cup SampleTimestamps}
    \cup {JNum(0), JNum(206), JNull}

UrlValues == {
    NULL,
    <<>>,
    <<"https://www.youtube.com/watch", "?", "v=", "XYZ">>,
    <<"https://youtu.be/", "XYZ">>,
    <<"https://example.com/episode", "?", "id=1">>
}

UrlInit ==
    /\ urlPc = "start"
    /\ urlIn \in UrlValues
    /\ tsIn \in TimestampValues
    /\ urlOut = None

UrlIdle == urlPc = "idle" /\ urlIn = NULL /\ tsIn = JNull /\ urlOut = None

\* url_at = build_url_at_moment(src["url"], ts)
BuildUrl ==
    /\ urlPc = "start"
    /\ urlOut' = build_url_at_moment(urlIn, tsIn)
    /\ urlPc' = "done"
    /\ UNCHANGED <<urlIn, tsIn, kwVars, apiVars, adminVars, buildVars, serveVars, mcpVars, srcVars>>

\* ------------------------------------------------------------ tags as JSON
QUOTE == "\""

\* json.dumps(v, ensure_ascii=False): the text stored in the tags column
json_dumps(v) ==
    CASE v.kind = "list" ->
            <<"[">> \o Join([i \in DOMAIN v.items |-> <<QUOTE>> \o v.items[i] \o <<QUOTE>>],
                            <<",", " ">>) \o <<"]">>
      [] v.kind = "str"  -> <<QUOTE>> \o v.chars \o <<QUOTE>>
      [] v.kind = "num"  -> IntStr(v.num)
      [] v.kind = "null" -> <<"n", "u", "l", "l">>

\* a JSON string literal without escapes: "..." with no quote inside
IsStringLiteral(t) ==
    /\ Len(t) >= 2
    /\ t[1] = QUOTE /\ t[Len(t)] = QUOTE
    /\ \A k \in 2..(Len(t) - 1) : t[k] # QUOTE

\* json.loads(text): the value, or JSONDecodeError
json_loads(text) ==
    LET t == Strip(text, Whitespace)
        inner == SubSeq(t, 2, Len(t) - 1)
        elems == [k \in DOMAIN Split(inner, ",", <<>>) |->
                     Strip(Split(inner, ",", <<>>)[k], Whitespace)]
    IN  CASE t = <<"n", "u", "l", "l">> -> Value(JNull)
          [] IsStringLiteral(t) -> Value(JStr(inner))
          [] Len(t) >= 2 /\ t[1] = "[" /\ t[Len(t)] = "]" ->
                IF Strip(inner, Whitespace) = <<>> THEN Value(JList(<<>>))
                ELSE IF \A k \in DOMAIN elems : IsStringLiteral(elems[k])
                     THEN Value(JList([k \in DOMAIN elems |->
                                          SubSeq(elems[k], 2, Len(elems[k]) - 1)]))
                     ELSE Raise("JSONDecodeError")
          [] OTHER ->
                IF t # <<>> /\ Head(t) # "+" /\ IntOfStr(t).kind = "value"
                THEN Value(JNum(IntOfStr(t).val))
                ELSE Raise("JSONDecodeError")

\* set(v): the items of a list, the characters of a string; a number is not
\* iterable (TypeError)
PySet(v) ==
    CASE v.kind = "list" -> Value(Range(v.items))
      [] v.kind = "str"  -> Value({<<v.chars[k]>> : k \in DOMAIN v.chars})
      [] OTHER           -> Raise("TypeError")

\* ------------------------------------------------------------------- store
\* One row of the moments table as build_db writes it: the identifier is a
\* fresh uuid4 (here the row's ordinal), tags is json.dumps(tags or []).
MomentRow(id, type, stage, tags, podcast, summary) ==
    [id |-> id, type |-> type, stage |-> stage,
     tags |-> json_dumps(IF Truthy(tags) THEN tags ELSE JList(<<>>)),
     podcast |-> podcast, summary |-> summary]

\* a lookup that falls back to the first row when the identifier is unknown
SelectById_or_first(db, moment_id) ==
    IF \E k \in DOMAIN db : db[k].id = moment_id
    THEN <<db[CHOOSE k \in DOMAIN db : db[k].id = moment_id]>>
    ELSE SubSeq(db, 1, IF db = <<>> THEN 0 ELSE 1)

\* SELECT * FROM moments WHERE id = ? : the rows found (id is the primary
\* key, so at most one); fetchone() is None when there is none
RECURSIVE SelectById(_, _)
SelectById(db, moment_id) ==
    IF db = <<>> THEN <<>>
    ELSE (IF Head(db).id = moment_id THEN <<Head(db)>> ELSE <<>>)
         \o SelectById(Tail(db), moment_id)

\* the same query without "id != ?": the source is its own candidate
RECURSIVE SelectCandidates_with_source(_, _)
SelectCandidates_with_source(db, moment_id) ==
    IF db = <<>> THEN <<>>
    ELSE (IF Head(db).tags # NULL /\ Head(db).tags # <<"[", "]">>
          THEN <<Head(db)>> ELSE <<>>) \o SelectCandidates_with_source(Tail(db), moment_id)

\* SELECT * FROM moments WHERE id != ? AND tags IS NOT NULL AND tags != '[]'
\* (rows come back in rowid order)
RECURSIVE SelectCandidates(_, _)
SelectCandidates(db, moment_id) ==
    IF db = <<>> THEN <<>>
    ELSE (IF Head(db).id # moment_id /\ Head(db).tags # NULL
             /\ Head(db).tags # <<"[", "]">>
          THEN <<Head(db)>> ELSE <<>>) \o SelectCandidates(Tail(db), moment_id)

\* -------------------------------------------------------------- responses
\* What a request leaves behind: the HTTP outcome, the connections it opened
\* and closed on the store, the queries it ran and the log events it handed
\* to log_entry.
Response(status, detail, count, moments, tags, keywords, opened, closed, queries, logged) ==
    [status |-> status, detail |-> detail, count |-> count, moments |-> moments,
     source_tags |-> tags, keywords |-> keywords,
     opened |-> opened, closed |-> closed, queries |-> queries, logged |-> logged]

ErrorResponse(status, detail, opened, closed, queries, logged) ==
    Response(status, detail, 0, <<>>, <<>>, <<>>, opened, closed, queries, logged)

LogEvent(endpoint, count) == [endpoint |-> endpoint, count |-> count]

\* limit: int = Query(5, ge=1, le=20): the framework refuses other values (422)
\* before the handler body runs
LimitMin == 1
LimitMax == 20
LimitValid(limit) == limit >= LimitMin /\ limit <= LimitMax

\* "tags": json.loads(row["tags"]) if row["tags"] else []
FormatTags(row) ==
    IF row.tags = NULL \/ row.tags = <<>> THEN Value(JList(<<>>))
    ELSE json_loads(row.tags)

\* response_model: Moment.tags and SimilarResponse.source_tags are list[str];
\* a response that does not validate is answered with 500
TagsValid(v) == v.kind = "value" /\ v.val.kind = "list"

\* ------------------------------------------------------------- get_moment
get_moment(db, moment_id) ==
    LET found == SelectById(db, moment_id)
        row == found[1]
        logged == <<LogEvent("/moments", 1)>>
    IN  IF found = <<>>
        THEN ErrorResponse(404, "not found", 1, 1, <<"by_id">>, <<>>)
        ELSE IF ~TagsValid(FormatTags(row))
        THEN ErrorResponse(500, "server error", 1, 1, <<"by_id">>, logged)
        ELSE Response(200, "", 1, <<row.id>>, <<>>, <<>>, 1, 1, <<"by_id">>, logged)

\* ---------------------------------------------------------------- similar
\* shared = len(source_tag_set & c_tags) ; a candidate whose tags do not load
\* or are not iterable is skipped by the except branch
CandidateTagSet(c) ==
    LET loaded == json_loads(c.tags)
    IN  IF loaded.kind = "raise" THEN loaded ELSE PySet(loaded.val)

Shared(source_tag_set, c) ==
    IF CandidateTagSet(c).kind = "raise" THEN 0
    ELSE Cardinality(source_tag_set \cap CandidateTagSet(c).val)

\* same_stage = 1 if c["stage"] == source_stage else 0
SameStage(c, source_stage) == IF c.stage = source_stage THEN 1 ELSE 0

\* the scoring loop: (shared, same_stage, c) for every candidate with shared > 0
RECURSIVE Score(_, _, _)
Score(candidates, source_tag_set, source_stage) ==
    IF candidates = <<>> THEN <<>>
    ELSE (IF Shared(source_tag_set, Head(candidates)) > 0
          THEN <<[shared |-> Shared(source_tag_set, Head(candidates)),
                  same_stage |-> SameStage(Head(candidates), source_stage),
                  c |-> Head(candidates)]>>
          ELSE <<>>) \o Score(Tail(candidates), source_tag_set, source_stage)

\* key=lambda x: x[0]: the stage left out of the key
KeyLess_overlap_only(x, y) == x.shared < y.shared

\* key=lambda x: (x[0], x[1]), compared as tuples
KeyLess(x, y) ==
    x.shared < y.shared \/ (x.shared = y.shared /\ x.same_stage < y.same_stage)

\* a sort that puts a later entry before the earlier ones with an equal key
RECURSIVE InsertSorted_ties_reversed(_, _)
InsertSorted_ties_reversed(sorted, x) ==
    IF sorted = <<>> THEN <<x>>
    ELSE IF ~KeyLess(x, Head(sorted)) THEN <<x>> \o sorted
    ELSE <<Head(sorted)>> \o InsertSorted_ties_reversed(Tail(sorted), x)

\* scored.sort(key=..., reverse=True): descending and stable, so entries with
\* equal keys keep their scan order
RECURSIVE InsertSorted(_, _)
InsertSorted(sorted, x) ==
    IF sorted = <<>> THEN <<x>>
    ELSE IF KeyLess(Head(sorted), x) THEN <<x>> \o sorted
    ELSE <<Head(sorted)>> \o InsertSorted(Tail(sorted), x)

RECURSIVE SortScored(_)
SortScored(scored) ==
    IF scored = <<>> THEN <<>>
    ELSE InsertSorted(SortScored(SubSeq(scored, 1, Len(scored) - 1)),
                      scored[Len(scored)])

\* scored[:limit]
Truncate(seq, limit) == SubSeq(seq, 1, IF Len(seq) < limit THEN Len(seq) ELSE limit)

\* the ranked candidates of a source row whose tags loaded as source_tags
Ranked(db, source, source_tags) ==
    SortScored(Score(SelectCandidates(db, source.id),
                     PySet(source_tags).val, source.stage))

\* the early return dropped: a source without tags goes on to the scan
NoSourceTags_skipped(source_tags) == FALSE

\* "if not source_tags"
NoSourceTags(source_tags) == ~Truthy(source_tags)

similar(db, moment_id, limit) ==
    LET found  == SelectById(db, moment_id)
        source == found[1]
        loaded == FormatTags(source)
        top    == Truncate(Ranked(db, source, loaded.val), limit)
        ids    == [k \in DOMAIN top |-> top[k].c.id]
        logged == <<LogEvent("/similar", Len(top))>>
        both   == <<"by_id", "candidates">>
    IN  IF ~LimitValid(limit)
        THEN ErrorResponse(422, "limit out of range", 0, 0, <<>>, <<>>)
        ELSE IF found = <<>>
        THEN ErrorResponse(404, "not found", 1, 1, <<"by_id">>, <<>>)
        ELSE IF loaded.kind = "raise"
        THEN ErrorResponse(500, "server error", 1, 0, <<"by_id">>, <<>>)
        ELSE IF NoSourceTags(loaded.val)
        THEN Response(200, "", 0, <<>>, <<>>, <<>>, 1, 1, <<"by_id">>, <<>>)
        ELSE IF PySet(loaded.val).kind = "raise"
        THEN ErrorResponse(500, "server error", 1, 1, both, <<>>)
        ELSE IF ~TagsValid(loaded)
                \/ \E k \in DOMAIN top : ~TagsValid(FormatTags(top[k].c))
        THEN ErrorResponse(500, "server error", 1, 1, both, logged)
        ELSE Response(200, "", Len(top), ids, loaded.val.items, <<>>, 1, 1, both, logged)

\* ------------------------------------------------------- full-text engine
\* The match engine (SQLite FTS5) is a collaborator of the handlers.  What the
\* handlers rely on: an expression is a list of barewords, adjacent ones
\* joined by an implicit AND, groups separated by the operator OR; a bareword
\* holds letters and digits only, so an apostrophe, an empty expression or a
\* dangling OR is a syntax error.  Terms match case-insensitively against the
\* tokens of the indexed columns.
IsAlnum(c) == c \in Range(LowerLetters) \cup Range(UpperLetters) \cup Range(Digits)

RECURSIVE Tokens(_, _)
Tokens(s, run) ==
    IF s = <<>>
    THEN IF run # <<>> THEN <<run>> ELSE <<>>
    ELSE IF Head(s) \in Whitespace
         THEN (IF run # <<>> THEN <<run>> ELSE <<>>) \o Tokens(Tail(s), <<>>)
         ELSE Tokens(Tail(s), Append(run, Head(s)))

OR == <<"O", "R">>

IsBareword(tok) == tok # <<>> /\ \A k \in DOMAIN tok : IsAlnum(tok[k])

FtsSyntaxOk(expr) ==
    LET toks == Tokens(expr, <<>>)
    IN  /\ toks # <<>>
        /\ \A k \in DOMAIN toks : IsBareword(toks[k])
        /\ toks[1] # OR /\ toks[Len(toks)] # OR
        /\ \A k \in 1..(Len(toks) - 1) : ~(toks[k] = OR /\ toks[k + 1] = OR)

\* the groups of terms between the OR operators
RECURSIVE OrGroups(_, _)
OrGroups(toks, cur) ==
    IF toks = <<>> THEN <<cur>>
    ELSE IF Head(toks) = OR THEN <<cur>> \o OrGroups(Tail(toks), <<>>)
    ELSE OrGroups(Tail(toks), Append(cur, Lower(Head(toks))))

\* the tokens of a column text: runs of letters and digits, lowercased
RECURSIVE IndexTokens(_, _)
IndexTokens(s, run) ==
    IF s = <<>>
    THEN IF run # <<>> THEN {Lower(run)} ELSE {}
    ELSE IF IsAlnum(Head(s))
         THEN IndexTokens(Tail(s), Append(run, Head(s)))
         ELSE (IF run # <<>> THEN {Lower(run)} ELSE {}) \cup IndexTokens(Tail(s), <<>>)

\* the indexed text of a row: moments_fts has content=moments and is filled
\* from the same summary and tags text (the other text columns are empty here)
FtsDoc(row) ==
    IndexTokens(row.summary, <<>>)
    \cup (IF row.tags = NULL THEN {} ELSE IndexTokens(row.tags, <<>>))

FtsMatch(expr, row) ==
    LET groups == OrGroups(Tokens(expr, <<>>), <<>>)
    IN  \E g \in DOMAIN groups : \A k \in DOMAIN groups[g] : groups[g][k] \in FtsDoc(row)

\* text LIKE pattern: "%" stands for any run of characters, "_" for any one
\* character, letters match without regard to ASCII case
RECURSIVE LikeMatch(_, _)
LikeMatch(text, pattern) ==
    IF pattern = <<>> THEN text = <<>>
    ELSE IF Head(pattern) = "%"
    THEN \E k \in 0..Len(text) : LikeMatch(SubSeq(text, k + 1, Len(text)), Tail(pattern))
    ELSE /\ text # <<>>
         /\ Head(pattern) = "_" \/ LowerChar(Head(text)) = LowerChar(Head(pattern))
         /\ LikeMatch(Tail(text), Tail(pattern))

\* m.podcast LIKE ? with the parameter f"%{podcast}%": the text of the caller
\* is part of the pattern as it is; NULL matches nothing
Like(text, sub) ==
    /\ text # NULL
    /\ LikeMatch(text, <<"%">> \o sub \o <<"%">>)

\* "if stage:" - a filter applies when the parameter is neither None nor empty
Given(param) == param # NULL /\ param # <<>>

\* WHERE moments_fts MATCH ? AND m.stage = ? AND m.type = ? AND m.podcast LIKE ?
RowSelected(row, fts_query, stage, type, podcast) ==
    /\ FtsMatch(fts_query, row)
    /\ Given(stage) => row.stage = stage
    /\ Given(type) => row.type = type
    /\ Given(podcast) => Like(row.podcast, podcast)

RECURSIVE SelectRows(_, _, _, _, _)
SelectRows(db, fts_query, stage, type, podcast) ==
    IF db = <<>> THEN <<>>
    ELSE (IF RowSelected(Head(db), fts_query, stage, type, podcast)
          THEN <<Head(db)>> ELSE <<>>)
         \o SelectRows(Tail(db), fts_query, stage, type, podcast)

\* ORDER BY f.rank: the engine's relevance order (bm25) is its own; every
\* order of the selected rows is one it may give
OrderByRank(rows) ==
    {[k \in DOMAIN rows |-> rows[p[k]]] : p \in Permutations(DOMAIN rows)}

\* cur.execute(sql, params); cur.fetchall(): the results the engine may give:
\* its error, or the first limit rows in its order
FtsQuery(db, fts_query, stage, type, podcast, limit) ==
    IF ~FtsSyntaxOk(fts_query) THEN {Raise("OperationalError")}
    ELSE {Value(Truncate(ordered, limit)) :
            ordered \in OrderByRank(SelectRows(db, fts_query, stage, type, podcast))}

\* ----------------------------------------------------------------- search
\* "if not q": the strip() forgotten
IsBlank_unstripped(text) == text = <<>>

\* "if not q.strip()"
IsBlank(text) == Strip(text, Whitespace) = <<>>

\* the except clause left out: the engine's error leaves the handler unhandled
QueryError_unhandled(error_detail) ==
    ErrorResponse(500, "server error", 1, 0, <<"match">>, <<>>)

\* except Exception as e: raise HTTPException(status_code=400, detail=f"...: {e}")
\* (conn.close() is the last statement of the try block and is not reached)
QueryError(error_detail) ==
    ErrorResponse(400, error_detail, 1, 0, <<"match">>, <<>>)

\* the part of search and situation_match after the try block, for the rows
\* the query gave
Answer(endpoint, error_detail, rows, keywords) ==
    LET ids    == [k \in DOMAIN rows.val |-> rows.val[k].id]
        logged == <<LogEvent(endpoint, Len(rows.val))>>
    IN  IF rows.kind = "raise"
        THEN QueryError(error_detail)
        ELSE IF \E k \in DOMAIN rows.val : FormatTags(rows.val[k]).kind = "raise"
        THEN ErrorResponse(500, "server error", 1, 1, <<"match">>, <<>>)
        ELSE IF \E k \in DOMAIN rows.val : ~TagsValid(FormatTags(rows.val[k]))
        THEN ErrorResponse(500, "server error", 1, 1, <<"match">>, logged)
        ELSE Response(200, "", Len(rows.val), ids, <<>>, keywords, 1, 1, <<"match">>, logged)

\* the try block and what follows: one outcome for each result the engine
\* may give
RunQuery(db, endpoint, error_detail, fts_query, stage, type, podcast, limit, keywords) ==
    {Answer(endpoint, error_detail, rows, keywords) :
        rows \in FtsQuery(db, fts_query, stage, type, podcast, limit)}

\* the outcomes of GET /search
search(db, q, stage, type, podcast, limit) ==
    IF ~LimitValid(limit)
    THEN {ErrorResponse(422, "limit out of range", 0, 0, <<>>, <<>>)}
    ELSE IF IsBlank(q)
    THEN {ErrorResponse(400, "Query 'q' cannot be empty", 0, 0, <<>>, <<>>)}
    ELSE RunQuery(db, "/search", "Invalid query", Strip(q, Whitespace),
                  stage, type, podcast, limit, <<>>)

\* -------------------------------------------------------- situation_match
\* the check dropped: an empty keyword list goes on to the store
NoKeywords_skipped(keywords) == FALSE

\* "if not keywords"
NoKeywords(keywords) == keywords = <<>>

\* limit = max(1, min(body.limit, 20))
ClampLimit(limit) ==
    LET m == IF limit < LimitMax THEN limit ELSE LimitMax
    IN  IF m > LimitMin THEN m ELSE LimitMin

\* the outcomes of POST /situation
situation_match(db, situation, stage, limit) ==
    LET keywords == extract_keywords(situation)
    IN  IF ~LimitValid(limit)
        THEN {ErrorResponse(422, "limit out of range", 0, 0, <<>>, <<>>)}
        ELSE IF IsBlank(situation)
        THEN {ErrorResponse(400, "'situation' cannot be empty", 0, 0, <<>>, <<>>)}
        ELSE IF NoKeywords(keywords)
        THEN {ErrorResponse(400, "No meaningful keywords found in situation description",
                            0, 0, <<>>, <<>>)}
        ELSE RunQuery(db, "/situation", "Search error", Join(keywords, <<" ">> \o OR \o <<" ">>),
                      stage, NULL, NULL, ClampLimit(limit), keywords)

\* --------------------------------------------------------------- ingestion
\* a key the JSON object does not have
JAbsent == [kind |-> "absent", chars |-> <<>>, num |-> 0, items |-> <<>>]

\* dict.get(key, default)
Get(v, default) == IF v.kind = "absent" THEN default ELSE v

\* "dict.get(key) or default"
GetOr(v, default) == IF v.kind # "absent" /\ Truthy(v) THEN v ELSE default

\* One moment of a moments file.  guest and url are the fields of its
\* "source" object; any field may be absent, null or of another type.
Moment(id, type, timestamp, summary, tags, guest, url) ==
    [id |-> id, type |-> type, timestamp |-> timestamp, summary |-> summary,
     tags |-> tags, guest |-> guest, url |-> url]

\* meta.json of an episode directory
Meta(guest, url) == [guest |-> guest, url |-> url]

\* load_meta: {} when meta.json is missing or unreadable
NoMeta == Meta(JAbsent, JAbsent)

\* the unresolved search-query URL and the unresolved-guest marker are single
\* pieces of a text
YtSearchPrefix == <<"ytsearch1:">>
HasTodo(text) == "TODO" \in Range(text)

\* "'TODO' in guest": a substring test on a string, a membership test on a
\* list; None and a number are not iterable (TypeError)
Iterable(v) == v.kind \in {"str", "list"}
InGuest(v) ==
    IF v.kind = "str" THEN HasTodo(v.chars)
    ELSE \E k \in DOMAIN v.items : v.items[k] = <<"TODO">>

\* the second "if 'TODO' in guest" left out
KeepGuest(guest) == guest

\* "if 'TODO' in guest: guest = ''"
RejectTodo(guest) == IF InGuest(guest) THEN JStr(<<>>) ELSE guest

\* resolve_source: url and guest merged from meta.json and the moment.  The
\* methods used on them (startswith, in) need strings: null or a number
\* leaves the function with an exception.
resolve_source(moment, meta) ==
    LET url    == GetOr(meta.url, Get(moment.url, JStr(<<>>)))
        guest0 == GetOr(meta.guest, Get(moment.guest, JStr(<<>>)))
        guest1 == IF InGuest(guest0) THEN Get(moment.guest, JStr(<<>>)) ELSE guest0
    IN  IF url.kind # "str" THEN Raise("AttributeError")
        ELSE IF ~Iterable(guest0) \/ ~Iterable(guest1) THEN Raise("TypeError")
        ELSE Value([guest |-> RejectTodo(guest1),
                    url |-> IF StartsWith(url.chars, YtSearchPrefix) THEN <<>> ELSE url.chars])

\* str(uuid.uuid4()): the n-th identifier generated by this run, unlike any
\* other
Uuid4(n) == [origin |-> "uuid4", val |-> NatStr(n)]

\* an identifier read from a file
FileId(v) == [origin |-> "file", val |-> IF v.kind = "str" THEN v.chars ELSE IntStr(v.num)]

\* a row of the moments table and its row of moments_fts
TableRow(rowid, id, type, summary, tags, guest, url_at_moment) ==
    [rowid |-> rowid, id |-> id, type |-> type, summary |-> summary, tags |-> tags,
     guest |-> guest, url_at_moment |-> url_at_moment]

FtsRow(rowid, summary, tags) == [rowid |-> rowid, summary |-> summary, tags |-> tags]

\* the text SQLite stores for a bound value, NULL for None
Stored(v) ==
    CASE v.kind = "str"  -> v.chars
      [] v.kind = "num"  -> IntStr(v.num)
      [] OTHER           -> NULL

\* a list is no value SQLite can bind to a parameter
Bindable(v) == v.kind # "list"

\* INSERT INTO moments: type and summary are NOT NULL and id is the PRIMARY
\* KEY; a violation is an IntegrityError
InsertFails(table, row) ==
    \/ row.type = NULL
    \/ row.summary = NULL
    \/ \E k \in DOMAIN table : table[k].id = row.id

\* a transaction: the rows inserted and not yet committed
Tables(moments, fts) == [moments |-> moments, fts |-> fts]
EmptyTables == Tables(<<>>, <<>>)

\* the state of the moment loop: the open transaction, the collected index
\* rows, stats["total"], and the exception that ended it if any
Loop(tables, for_fts, total, raised) ==
    [tables |-> tables, for_fts |-> for_fts, total |-> total, raised |-> raised]

\* "for tag in tags: stats['all_tags'].add(tag)": a number is not iterable
TagsIterable(tags) == tags.kind \in {"list", "str"}

\* the body of build_db's moment loop for one moment
IngestMoment(loop, moment, meta) ==
    LET src    == resolve_source(moment, meta)
        ts     == Get(moment.timestamp, JStr(<<>>))
        url_at == build_url_at_moment(src.val.url, ts)
        tags   == GetOr(moment.tags, JList(<<>>))
        rowid  == Len(loop.tables.moments) + 1
        row    == TableRow(rowid, Uuid4(rowid),
                           Stored(Get(moment.type, JStr(<<"unknown">>))),
                           Stored(Get(moment.summary, JStr(<<>>))),
                           json_dumps(tags), Stored(src.val.guest),
                           IF url_at.kind = "value" THEN url_at.val ELSE NULL)
        inserted == Tables(Append(loop.tables.moments, row), loop.tables.fts)
    IN  IF src.kind = "raise" \/ url_at.kind = "raise" \/ ~Bindable(src.val.guest)
           \/ InsertFails(loop.tables.moments, row)
        THEN Loop(loop.tables, loop.for_fts, loop.total, TRUE)
        ELSE IF ~TagsIterable(tags)
        THEN Loop(inserted, Append(loop.for_fts, FtsRow(rowid, row.summary, row.tags)),
                  loop.total, TRUE)
        ELSE Loop(inserted, Append(loop.for_fts, FtsRow(rowid, row.summary, row.tags)),
                  loop.total + 1, FALSE)

\* "for moment in moments": stops at the first exception
RECURSIVE IngestMoments(_, _, _)
IngestMoments(loop, moments, meta) ==
    IF moments = <<>> \/ loop.raised THEN loop
    ELSE IngestMoments(IngestMoment(loop, Head(moments), meta), Tail(moments), meta)

\* the body of build_sample_db's loop for one moment: the identifier is the
\* file's when it has one, both rows are inserted at once, and there are no
\* statistics
IngestSample(loop, m) ==
    LET ts     == Get(m.timestamp, JStr(<<>>))
        url    == Get(m.url, JStr(<<>>))
        url_at == build_url_at_moment(IF url.kind = "str" THEN url.chars ELSE NULL, ts)
        tags   == GetOr(m.tags, JList(<<>>))
        rowid  == Len(loop.tables.moments) + 1
        row    == TableRow(rowid,
                           IF m.id.kind # "absent" /\ Truthy(m.id) THEN FileId(m.id)
                           ELSE Uuid4(rowid),
                           Stored(Get(m.type, JStr(<<"unknown">>))),
                           Stored(Get(m.summary, JStr(<<>>))),
                           json_dumps(tags), Stored(Get(m.guest, JNull)),
                           IF url_at.kind = "value" THEN url_at.val ELSE NULL)
    IN  IF (url.kind = "num" /\ Truthy(url)) \/ url_at.kind = "raise" \/ InsertFails(loop.tables.moments, row)
        THEN Loop(loop.tables, loop.for_fts, loop.total, TRUE)
        ELSE Loop(Tables(Append(loop.tables.moments, row),
                         Append(loop.tables.fts, FtsRow(rowid, row.summary, row.tags))),
                  loop.for_fts, loop.total + 1, FALSE)

RECURSIVE IngestSamples(_, _)
IngestSamples(loop, moments) ==
    IF moments = <<>> \/ loop.raised THEN loop
    ELSE IngestSamples(IngestSample(loop, Head(moments)), Tail(moments))

\* a moments file (sample_moments.json for build_sample_db) and the meta.json
\* beside it: missing, not loadable as JSON, or parsed into its moments
File(kind, meta, moments) == [kind |-> kind, meta |-> meta, moments |-> moments]

\* "except Exception" of json.load and "if not moments": skipped and counted
SkipCounted(file) ==
    file.kind = "unparseable" \/ (file.kind = "parsed" /\ file.moments = <<>>)

Counters(total, skipped_files) == [total |-> total, skipped_files |-> skipped_files]

\* a commit that leaves the index rows behind
commit_moments_only(committed, transaction) ==
    Tables(committed.moments \o transaction.moments, committed.fts)

\* conn.commit(): the rows of the transaction become visible together
commit(committed, transaction) ==
    Tables(committed.moments \o transaction.moments, committed.fts \o transaction.fts)

\* an exception no one catches ends the process: the open transaction is
\* rolled back, the tables created at the start stay
Abort ==
    /\ bPc' = "crashed"
    /\ txn' = EmptyTables
    /\ moments_for_fts' = <<>>

\* build_db: os.remove(DB_PATH), connect, CREATE TABLE (not part of any
\* transaction)
StartBuild ==
    /\ bMode = "build_db" /\ bPc = "start"
    /\ disk' = EmptyTables
    /\ bPc' = "walk"
    /\ UNCHANGED <<bMode, episodes, bNext, txn, moments_for_fts, stats>>
    /\ UNCHANGED <<kwVars, urlVars, apiVars, adminVars, serveVars, mcpVars, srcVars>>

\* build_db: the end of one file's moment loop.  An exception ends the build;
\* otherwise the rows stay in the open transaction
EpisodeIngested(loop) ==
    IF loop.raised
    THEN /\ Abort
         /\ stats' = Counters(loop.total, stats.skipped_files)
    ELSE /\ txn' = loop.tables
         /\ moments_for_fts' = loop.for_fts
         /\ stats' = Counters(loop.total, stats.skipped_files)
         /\ UNCHANGED bPc

\* build_db: one pass of "for ep_dir in episode_dirs"
IngestEpisode ==
    /\ bMode = "build_db" /\ bPc = "walk" /\ bNext <= Len(episodes)
    /\ IF episodes[bNext].kind = "missing"
       THEN UNCHANGED <<bPc, txn, moments_for_fts, stats>>
       ELSE IF SkipCounted(episodes[bNext])
       THEN /\ stats' = Counters(stats.total, stats.skipped_files + 1)
            /\ UNCHANGED <<bPc, txn, moments_for_fts>>
       ELSE EpisodeIngested(IngestMoments(Loop(txn, moments_for_fts, stats.total, FALSE),
                                          episodes[bNext].moments, episodes[bNext].meta))
    /\ bNext' = bNext + 1
    /\ UNCHANGED <<bMode, episodes, disk>>
    /\ UNCHANGED <<kwVars, urlVars, apiVars, adminVars, serveVars, mcpVars, srcVars>>

\* build_db: "for m in moments_for_fts: INSERT INTO moments_fts"
PopulateFts ==
    /\ bMode = "build_db" /\ bPc = "walk" /\ bNext > Len(episodes)
    /\ txn' = Tables(txn.moments, txn.fts \o moments_for_fts)
    /\ bPc' = "commit"
    /\ UNCHANGED <<bMode, episodes, bNext, moments_for_fts, stats, disk>>
    /\ UNCHANGED <<kwVars, urlVars, apiVars, adminVars, serveVars, mcpVars, srcVars>>

\* build_sample_db up to CREATE TABLE: the sample file is read first, and
\* the function ends there when it is missing (sys.exit) or does not load
StartSample ==
    /\ bMode = "build_sample_db" /\ bPc = "start"
    /\ IF episodes[1].kind = "parsed"
       THEN disk' = EmptyTables /\ bPc' = "walk"
       ELSE disk' = disk /\ bPc' = "crashed"
    /\ UNCHANGED <<bMode, episodes, bNext, txn, moments_for_fts, stats>>
    /\ UNCHANGED <<kwVars, urlVars, apiVars, adminVars, serveVars, mcpVars, srcVars>>

\* build_sample_db: the end of the moment loop
SamplesIngested(loop) ==
    IF loop.raised
    THEN Abort
    ELSE txn' = loop.tables /\ bPc' = "commit" /\ UNCHANGED moments_for_fts

\* build_sample_db: "for m in moments"
IngestSampleFile ==
    /\ bMode = "build_sample_db" /\ bPc = "walk"
    /\ SamplesIngested(IngestSamples(Loop(txn, <<>>, 0, FALSE), episodes[1].moments))
    /\ bNext' = bNext + 1
    /\ UNCHANGED <<bMode, episodes, stats, disk>>
    /\ UNCHANGED <<kwVars, urlVars, apiVars, adminVars, serveVars, mcpVars, srcVars>>

\* conn.commit(); conn.close()
Commit ==
    /\ bPc = "commit"
    /\ disk' = commit(disk, txn)
    /\ txn' = EmptyTables
    /\ bPc' = "done"
    /\ UNCHANGED <<bMode, episodes, bNext, moments_for_fts, stats>>
    /\ UNCHANGED <<kwVars, urlVars, apiVars, adminVars, serveVars, mcpVars, srcVars>>

WatchUrl == <<"https://www.youtube.com/watch", "?", "v=", "XYZ">>

\* a moment as the extraction writes it
GoodMoment ==
    Moment(JAbsent, JStr(<<"lesson">>), JStr(<<"3", ":", "2", "6">>),
           JStr(<<"t", "o", "t">>), JList(<<<<"a">>>>), JStr(<<"g">>), JStr(WatchUrl))

\* moments that differ from it in one field
MomentSamples == {
    GoodMoment,
    [GoodMoment EXCEPT !.type = JAbsent],
    [GoodMoment EXCEPT !.type = JNull],
    [GoodMoment EXCEPT !.summary = JNull],
    [GoodMoment EXCEPT !.timestamp = JNum(206)],
    [GoodMoment EXCEPT !.timestamp = JNum(206), !.url = JStr(<<"https://example.com/episode">>)],
    [GoodMoment EXCEPT !.timestamp = JStr(<<"x">>)],
    [GoodMoment EXCEPT !.guest = JNull],
    [GoodMoment EXCEPT !.guest = JStr(<<"TODO">>)],
    [GoodMoment EXCEPT !.tags = JNull],
    [GoodMoment EXCEPT !.tags = JNum(5)],
    [GoodMoment EXCEPT !.tags = JStr(<<"a", "b">>)],
    [GoodMoment EXCEPT !.id = JStr(<<"s", "1">>)]
}

\* what a build may find in an episode directory
BuildFiles ==
    {File("missing", NoMeta, <<>>), File("unparseable", NoMeta, <<>>),
     File("parsed", NoMeta, <<>>),
     File("parsed", NoMeta, <<GoodMoment, GoodMoment>>),
     File("parsed", Meta(JStr(<<"m">>), JStr(<<"ytsearch1:", "q">>)),
          <<[GoodMoment EXCEPT !.guest = JNull]>>)}
    \cup {File("parsed", NoMeta, <<m>>) : m \in MomentSamples}

\* what build_sample_db may find as sample_moments.json
SampleFiles ==
    {File("missing", NoMeta, <<>>), File("unparseable", NoMeta, <<>>),
     File("parsed", NoMeta, <<>>),
     File("parsed", NoMeta, <<GoodMoment, GoodMoment>>),
     File("parsed", NoMeta, <<[GoodMoment EXCEPT !.id = JStr(<<"s", "1">>)],
                              [GoodMoment EXCEPT !.id = JStr(<<"s", "2">>)]>>),
     File("parsed", NoMeta, <<[GoodMoment EXCEPT !.id = JStr(<<"s", "1">>)],
                              [GoodMoment EXCEPT !.id = JStr(<<"s", "1">>)]>>)}
    \cup {File("parsed", NoMeta, <<m>>) : m \in MomentSamples}

\* the sorted episode directories of a build
EpisodeLists == UNION {[1..n -> BuildFiles] : n \in 0..MaxEpisodes}

\* echomindr.db before the build: none, or the store of an earlier build
PriorDisks ==
    {EmptyTables,
     Tables(<<TableRow(1, Uuid4(0), <<"lesson">>, <<"o", "l", "d">>, <<"[", "]">>, <<>>, NULL)>>,
            <<FtsRow(1, <<"o", "l", "d">>, <<"[", "]">>)>>)}

BuildIdle ==
    /\ bMode = "none" /\ episodes = <<>> /\ bPc = "idle" /\ bNext = 0
    /\ txn = EmptyTables /\ moments_for_fts = <<>> /\ stats = Counters(0, 0)
    /\ disk = EmptyTables

BuildInit ==
    /\ bMode \in {"build_db", "build_sample_db"}
    /\ episodes \in (IF bMode = "build_db" THEN EpisodeLists
                     ELSE {<<f>> : f \in SampleFiles})
    /\ bPc = "start" /\ bNext = 1
    /\ txn = EmptyTables /\ moments_for_fts = <<>> /\ stats = Counters(0, 0)
    /\ disk \in PriorDisks

\* ------------------------------------------------------------ admin access
\* the Authorization header of a request: absent, or a scheme and a parameter
NoHeader == [scheme |-> "none", param |-> <<>>]
Header(scheme, param) == [scheme |-> scheme, param |-> param]

\* _bearer = HTTPBearer(auto_error=False): the credentials of a Bearer header
\* with a non-empty parameter, None for any other header or none
_bearer(header) ==
    IF header.scheme = "bearer" /\ header.param # <<>> THEN header.param ELSE NULL

\* "if not ADMIN_TOKEN" negated
TokenConfigured(token) == token # <<>>

\* a comparison that ignores the case of letters
CredentialsMatch_ignoring_case(credentials, token) == Lower(credentials) = Lower(token)

\* "credentials.credentials != ADMIN_TOKEN" negated
CredentialsMatch(credentials, token) == credentials = token

AdminOutcome(status, detail) == [status |-> status, detail |-> detail]
NoOutcome == AdminOutcome(0, "")

\* the dependency of /admin/logs and /admin/dashboard; when it returns, the
\* endpoint runs and answers 200
require_admin(token, credentials) ==
    IF ~TokenConfigured(token)
    THEN AdminOutcome(503, "Admin token not configured on server")
    ELSE IF credentials = NULL \/ ~CredentialsMatch(credentials, token)
    THEN AdminOutcome(401, "Invalid or missing admin token")
    ELSE AdminOutcome(200, "")

TokenAlphabet == {"a", "A", "b"}

\* values of ECHOMINDR_ADMIN_TOKEN; the empty text is the default
AdminTokens == TextsUpTo(TokenAlphabet, MaxTokenLen)

\* headers a caller may send
Headers ==
    {NoHeader, Header("basic", <<"a">>), Header("bearer", <<>>)}
    \cup {Header("bearer", t) : t \in AdminTokens \ {<<>>}}

AdminIdle == ADMIN_TOKEN = <<>> /\ authorization = NoHeader /\ adminOut = NoOutcome

\* GET /admin/logs, GET /admin/dashboard
AdminRequest ==
    \E header \in Headers :
        /\ adminOut = NoOutcome
        /\ authorization' = header
        /\ adminOut' = require_admin(ADMIN_TOKEN, _bearer(header))
        /\ UNCHANGED <<ADMIN_TOKEN, kwVars, urlVars, apiVars, buildVars, serveVars, mcpVars, srcVars>>

\* the outcome is handed to the caller
AdminDeliver ==
    /\ adminOut # NoOutcome
    /\ adminOut' = NoOutcome
    /\ authorization' = NoHeader
    /\ UNCHANGED <<ADMIN_TOKEN, kwVars, urlVars, apiVars, buildVars, serveVars, mcpVars, srcVars>>

\* --------------------------------------------------------------- requests
\* a request as the framework hands it to a handler, and the marks of no
\* request and no response
NoRequest == [endpoint |-> "none", text |-> <<>>, moment_id |-> 0, stage |-> NULL,
              type |-> NULL, podcast |-> NULL, limit |-> 0]
NoResponse == ErrorResponse(0, "", 0, 0, <<>>, <<>>)

Request(endpoint, text, moment_id, stage, type, podcast, limit) ==
    [endpoint |-> endpoint, text |-> text, moment_id |-> moment_id, stage |-> stage,
     type |-> type, podcast |-> podcast, limit |-> limit]

\* ------------------------------------------------------------------ stats
\* the tags of a row as stats() adds them to all_tags: the items of a list,
\* the characters of a string; a row whose tags do not load or cannot be
\* iterated is passed over by the except branch
StatsTags(row) ==
    LET loaded == json_loads(row.tags)
    IN  IF loaded.kind = "raise" \/ PySet(loaded.val).kind = "raise" THEN {}
        ELSE PySet(loaded.val).val

\* GET /stats: six SELECTs on one connection, nothing handed to the log
api_stats(db) ==
    LET types  == {db[k].type : k \in DOMAIN db}
        stages == {db[k].stage : k \in DOMAIN db} \ {NULL}
        tagged == {k \in DOMAIN db : db[k].tags # NULL /\ db[k].tags # <<"[", "]">>}
    IN  [status |-> 200,
         total_moments |-> Len(db),
         by_type  |-> [t \in types |-> Cardinality({k \in DOMAIN db : db[k].type = t})],
         by_stage |-> [g \in stages |-> Cardinality({k \in DOMAIN db : db[k].stage = g})],
         podcasts |-> Cardinality({db[k].podcast : k \in DOMAIN db} \ {NULL}),
         unique_tags |-> Cardinality(UNION {StatsTags(db[k]) : k \in tagged}),
         opened |-> 1, closed |-> 1,
         queries |-> <<"count", "by_type", "by_stage", "podcasts", "guests", "tags">>,
         logged |-> <<>>]

\* ---------------------------------------------------- serving and logging
\* Handlers run side by side, one per slot.  A handler computes its response
\* from the store, hands its log event to log_entry, which starts a thread
\* running _write_log, and returns.
Handlers == {1, 2}

Slot(pc, request, response, thread) ==
    [pc |-> pc, req |-> request, resp |-> response, thread |-> thread]
IdleSlot == Slot("idle", NoRequest, NoResponse, 0)

\* the outcomes the handler of a request may compute
Dispatch(db, r) ==
    CASE r.endpoint = "search" -> search(db, r.text, r.stage, r.type, r.podcast, r.limit)
      [] r.endpoint = "situation_match" -> situation_match(db, r.text, r.stage, r.limit)
      [] r.endpoint = "get_moment" -> {get_moment(db, r.moment_id)}
      [] r.endpoint = "similar" -> {similar(db, r.moment_id, r.limit)}
      [] r.endpoint = "stats" -> {api_stats(db)}

\* the store the handlers serve
ServeStore ==
    <<MomentRow(1, <<"lesson">>, <<"idea">>, JList(<<<<"a">>>>), <<"p">>,
                <<"t","o","t"," ","o","t","t","o">>),
      MomentRow(2, <<"decision">>, NULL, JList(<<<<"a">>, <<"b">>>>), <<"p">>,
                <<"T","o","t">>)>>

\* requests callers send while others are in progress
ServeRequests == {
    Request("get_moment", <<>>, 1, NULL, NULL, NULL, 0),
    Request("get_moment", <<>>, 0, NULL, NULL, NULL, 0),
    Request("similar", <<>>, 1, NULL, NULL, NULL, 5),
    Request("search", <<"t","o","t">>, 0, NULL, NULL, NULL, 5),
    Request("search", <<"t","o","'","t">>, 0, NULL, NULL, NULL, 5),
    Request("situation_match", <<"t","h","e"," ","o","t","t","o"," ","t","o","t">>, 0,
            NULL, NULL, NULL, 5),
    Request("stats", <<>>, 0, NULL, NULL, NULL, 0)
}

\* the same, worked out once for the store that is served
ServedOutcomes == [r \in ServeRequests |-> Dispatch(ServeStore, r)]

Outcomes(db, r) ==
    IF db = ServeStore /\ r \in ServeRequests THEN ServedOutcomes[r] ELSE Dispatch(db, r)

\* log threads started so far
Started == Cardinality(threads) + Len(sink) + Cardinality(failed)

\* log_entry: threading.Thread(target=_write_log, args=..., daemon=True).start()
log_entry(running, id, event) == running \cup {[id |-> id, event |-> event]}

\* a write into the store's own file instead of the log's
_write_log_into_store(db, logs, entry, ok) ==
    IF ok
    THEN [store |-> Append(db, MomentRow(Len(db) + 1, <<"log">>, NULL, JList(<<>>), NULL, <<>>)),
          sink |-> logs, warned |-> FALSE]
    ELSE [store |-> db, sink |-> logs, warned |-> TRUE]

\* _write_log: INSERT INTO request_logs on a connection to LOGS_DB_PATH, and
\* commit; any exception is caught and reported by log.warning
_write_log(db, logs, entry, ok) ==
    IF ok
    THEN [store |-> db, sink |-> Append(logs, entry), warned |-> FALSE]
    ELSE [store |-> db, sink |-> logs, warned |-> TRUE]

\* a return that waits for the handler's log thread to finish
ReturnReady_after_write(h) ==
    \/ handlers[h].pc = "computed" /\ handlers[h].resp.logged = <<>>
    \/ /\ handlers[h].pc = "logged"
       /\ \A t \in threads : t.id # handlers[h].thread

\* the return statement (or the raise) is the next statement: after
\* log_entry when the path logs, after the response is computed when not
ReturnReady(h) ==
    \/ handlers[h].pc = "computed" /\ handlers[h].resp.logged = <<>>
    \/ handlers[h].pc = "logged"

\* the handler body up to its response: the queries on a read-only
\* connection (get_db opens the file with mode=ro)
Handle(h) ==
    \E r \in ServeRequests :
        \E out \in Outcomes(store, r) :
            /\ handlers[h].pc = "idle"
            /\ out.logged # <<>> => Started < MaxLogWrites
            /\ handlers' = [handlers EXCEPT ![h] = Slot("computed", r, out, 0)]
            /\ UNCHANGED <<store, threads, sink, failed>>

\* log_entry(...): the thread is started and the handler goes on
LogEntry(h) ==
    /\ handlers[h].pc = "computed"
    /\ handlers[h].resp.logged # <<>>
    /\ threads' = log_entry(threads, Started + 1, handlers[h].resp.logged[1])
    /\ handlers' = [handlers EXCEPT ![h].pc = "logged", ![h].thread = Started + 1]
    /\ UNCHANGED <<store, sink, failed>>

\* the response is handed to the caller
Return(h) ==
    /\ ReturnReady(h)
    /\ handlers' = [handlers EXCEPT ![h] = IdleSlot]
    /\ UNCHANGED <<store, threads, sink, failed>>

\* a log thread runs _write_log to its end; the write succeeds or fails
WriteLog ==
    \E t \in threads, ok \in BOOLEAN :
        LET out == _write_log(store, sink, t, ok)
        IN  /\ threads' = threads \ {t}
            /\ store' = out.store
            /\ sink' = out.sink
            /\ failed' = IF out.warned THEN failed \cup {t.id} ELSE failed
            /\ UNCHANGED handlers

ServeStep ==
    /\ (\E h \in Handlers : Handle(h) \/ LogEntry(h) \/ Return(h)) \/ WriteLog
    /\ UNCHANGED <<req, resp, kwVars, urlVars, adminVars, buildVars, mcpVars, srcVars>>

ServeIdle ==
    handlers = [h \in Handlers |-> IdleSlot] /\ threads = {} /\ sink = <<>> /\ failed = {}

\* ------------------------------------------------------------- agent tools
\* how httpx.get / httpx.post can end: with a response of the server, or with
\* an exception of the transport (refused connection, timeout while
\* connecting or reading, connection lost while reading)
Transports == {"response", "ConnectError", "ConnectTimeout", "ReadTimeout", "ReadError"}

\* the HTTP request of a tool and how it ended: status is the response's, 0
\* when there was none
HttpCall(method, request, net, status) ==
    [method |-> method, request |-> request, net |-> net, status |-> status]
NoCall == HttpCall("none", NoRequest, "none", 0)

\* what api_get / api_post leave: the decoded body or an exception
ApiOutcome(kind, exc, response) == [kind |-> kind, exc |-> exc, response |-> response]

\* "except httpx.ConnectError" ; "except httpx.HTTPStatusError"
Converted(net) == net \in {"ConnectError", "HTTPStatusError"}

\* resp.raise_for_status(): HTTPStatusError for a status outside 2xx
raise_for_status(response) == response.status < 200 \/ response.status > 299

\* the try block of api_get and api_post for one way the call can end
ApiResult(net, response) ==
    IF net # "response"
    THEN ApiOutcome("raise", IF Converted(net) THEN "RuntimeError" ELSE net, NoResponse)
    ELSE IF raise_for_status(response)
    THEN ApiOutcome("raise", IF Converted("HTTPStatusError") THEN "RuntimeError"
                             ELSE "HTTPStatusError", response)
    ELSE ApiOutcome("value", "", response)

\* api_get(path, params): every outcome the server and the transport allow
api_get(db, request, net) ==
    {ApiResult(net, response) :
        response \in (IF net = "response" THEN Dispatch(db, request) ELSE {NoResponse})}

\* api_post(path, body)
api_post(db, request, net) ==
    {ApiResult(net, response) :
        response \in (IF net = "response" THEN Dispatch(db, request) ELSE {NoResponse})}

\* What a tool hands to the agent runtime: a text, or an exception that
\* leaves the tool.  Of a text the model keeps whether it starts with
\* "Error: ", the keywords or tags of its header line and the number of
\* moments it lists.
ToolResult(kind, exc, error, header, found) ==
    [kind |-> kind, exc |-> exc, error |-> error, header |-> header, found |-> found]
NoToolResult == ToolResult("none", "", FALSE, <<>>, 0)

\* one run of a tool: the request sent and the result
Run(call, out) == [call |-> call, out |-> out]

\* "except RuntimeError as e: return f'Error: {e}'"; any other exception
\* is not caught
Finish(method, request, net, outcome, header) ==
    Run(HttpCall(method, request, net, outcome.response.status),
        IF outcome.kind = "raise"
        THEN (IF outcome.exc = "RuntimeError"
              THEN ToolResult("return", "", TRUE, <<>>, 0)
              ELSE ToolResult("raise", outcome.exc, FALSE, <<>>, 0))
        ELSE ToolResult("return", "", FALSE, header, Len(outcome.response.moments)))

\* limit = max(1, min(limit, 10)) ; limit = max(1, min(limit, 5))
SearchLimitMax == 10
SimilarLimitMax == 5
ToolLimit(limit, most) ==
    LET m == IF limit < most THEN limit ELSE most
    IN  IF m > 1 THEN m ELSE 1

\* a query parameter that is None is sent as the empty text
QueryParam(v) == IF v = NULL THEN <<>> ELSE v

\* "if type:"
ByType(type) == Given(type)

\* the request search_experience sends
SearchCall(situation, stage, type, limit) ==
    IF ByType(type)
    THEN Request("search", situation, 0, QueryParam(stage), type, NULL,
                 ToolLimit(limit, SearchLimitMax))
    ELSE Request("situation_match", situation, 0, IF Given(stage) THEN stage ELSE NULL,
                 NULL, NULL, ToolLimit(limit, SearchLimitMax))

search_experience(db, situation, stage, type, limit, net) ==
    IF ByType(type)
    THEN {Finish("GET", SearchCall(situation, stage, type, limit), net, o, o.response.keywords) :
            o \in api_get(db, SearchCall(situation, stage, type, limit), net)}
    ELSE {Finish("POST", SearchCall(situation, stage, type, limit), net, o, o.response.keywords) :
            o \in api_post(db, SearchCall(situation, stage, type, limit), net)}

DetailCall(moment_id) == Request("get_moment", <<>>, moment_id, NULL, NULL, NULL, 0)

get_experience_detail(db, moment_id, net) ==
    {Finish("GET", DetailCall(moment_id), net, o, <<>>) :
        o \in api_get(db, DetailCall(moment_id), net)}

SimilarCall(moment_id, limit) ==
    Request("similar", <<>>, moment_id, NULL, NULL, NULL, ToolLimit(limit, SimilarLimitMax))

find_similar_experiences(db, moment_id, limit, net) ==
    {Finish("GET", SimilarCall(moment_id, limit), net, o, o.response.source_tags) :
        o \in api_get(db, SimilarCall(moment_id, limit), net)}

\* a call of a tool by the agent
ToolCall(name, situation, moment_id, stage, type, limit) ==
    [name |-> name, situation |-> situation, moment_id |-> moment_id, stage |-> stage,
     type |-> type, limit |-> limit]
NoTool == ToolCall("none", <<>>, 0, NULL, NULL, 0)

McpIdle == tool = NoTool /\ http = NoCall /\ toolOut = NoToolResult

\* what agents send
ToolSituations == {
    <<>>,
    <<"t","o","t">>,
    <<"t","o","'","t">>,
    <<"t","h","e"," ","o","t","t","o"," ","t","o","t">>
}
ToolLimits == {0, 1, SimilarLimitMax + 1, SearchLimitMax + 1}
ToolMomentIds == {0, 1, 2}

SearchExperience ==
    \E situation \in ToolSituations, stage \in {NULL, <<"idea">>},
       type \in {NULL, <<>>, <<"lesson">>}, limit \in ToolLimits, net \in Transports :
        /\ tool = NoTool
        /\ tool' = ToolCall("search_experience", situation, 0, stage, type, limit)
        /\ \E run \in search_experience(store, situation, stage, type, limit, net) :
              http' = run.call /\ toolOut' = run.out
        /\ UNCHANGED <<apiVars, kwVars, urlVars, adminVars, buildVars, serveVars, srcVars>>

GetExperienceDetail ==
    \E moment_id \in ToolMomentIds, net \in Transports :
        /\ tool = NoTool
        /\ tool' = ToolCall("get_experience_detail", <<>>, moment_id, NULL, NULL, 0)
        /\ \E run \in get_experience_detail(store, moment_id, net) :
              http' = run.call /\ toolOut' = run.out
        /\ UNCHANGED <<apiVars, kwVars, urlVars, adminVars, buildVars, serveVars, srcVars>>

FindSimilarExperiences ==
    \E moment_id \in ToolMomentIds, limit \in ToolLimits, net \in Transports :
        /\ tool = NoTool
        /\ tool' = ToolCall("find_similar_experiences", <<>>, moment_id, NULL, NULL, limit)
        /\ \E run \in find_similar_experiences(store, moment_id, limit, net) :
              http' = run.call /\ toolOut' = run.out
        /\ UNCHANGED <<apiVars, kwVars, urlVars, adminVars, buildVars, serveVars, srcVars>>

\* the agent runtime takes the result
ToolDeliver ==
    /\ tool # NoTool
    /\ tool' = NoTool /\ http' = NoCall /\ toolOut' = NoToolResult
    /\ UNCHANGED <<apiVars, kwVars, urlVars, adminVars, buildVars, serveVars, srcVars>>

\* -------------------------------------------------------- source of a moment
\* guests found in meta.json and in the "source" object of a moment: none,
\* null, a number, empty, resolved, unresolved (the marker alone or inside a
\* longer text), a list
GuestValues ==
    {JAbsent, JNull, JNum(0), JNum(5), JStr(<<>>), JStr(<<"m">>), JStr(<<"g">>),
     JStr(<<"TODO">>), JStr(<<"g", " ", "TODO", "x">>), JList(<<<<"TODO">>>>)}

UrlChoices ==
    {JAbsent, JNull, JStr(<<"ytsearch1:", "q">>), JStr(<<"https://www.youtube.com/watch">>)}

NoSource == None

SrcIdle == srcMoment = Moment(JAbsent, JAbsent, JAbsent, JAbsent, JAbsent, JAbsent, JAbsent)
           /\ srcMeta = NoMeta /\ srcOut = NoSource

SrcInit ==
    /\ \E guest \in GuestValues, url \in UrlChoices :
          srcMoment = Moment(JAbsent, JStr(<<"lesson">>), JAbsent, JStr(<<"t">>), JAbsent,
                             guest, url)
    /\ \E guest \in GuestValues, url \in {JAbsent, JStr(<<"https://www.youtube.com/watch">>)} :
          srcMeta = Meta(guest, url)
    /\ srcOut = NoSource

\* source = resolve_source(moment, meta)
ResolveSource ==
    /\ srcOut = NoSource
    /\ srcOut' = resolve_source(srcMoment, srcMeta)
    /\ UNCHANGED <<srcMoment, srcMeta>>
    /\ UNCHANGED <<kwVars, urlVars, apiVars, adminVars, buildVars, serveVars, mcpVars>>

\* ------------------------------------------------------------ specifications
ApiIdle == store = <<>> /\ req = NoRequest /\ resp = NoResponse

\* the stores a build can leave: up to MaxRows rows, row k with identifier k
\* and its content one of contents
StoresOf(contents) ==
    UNION {{[k \in 1..n |-> MomentRow(k, f[k].type, f[k].stage, f[k].tags,
                                       f[k].podcast, f[k].summary)] :
              f \in [1..n -> contents]} : n \in 0..MaxRows}

Content(type, stage, tags, podcast, summary) ==
    [type |-> type, stage |-> stage, tags |-> tags, podcast |-> podcast,
     summary |-> summary]

\* limits a caller may send: in range, at the edges and outside
LimitChoices == {0, 1, 2, LimitMax, LimitMax + 1}

\* identifiers a caller may send: 0 is never a row, k is one when the store
\* has at least k rows
RequestIds == 0..MaxRows

\* Requests are served one after another: a handler takes the next request
\* when none is in progress and leaves its outcome in resp; Deliver hands the
\* response to the caller and frees the path for the next request.
Deliver ==
    /\ req # NoRequest
    /\ req' = NoRequest
    /\ resp' = NoResponse
    /\ UNCHANGED <<store, kwVars, urlVars, adminVars, buildVars, serveVars, mcpVars, srcVars>>

\* GET /moments/{moment_id}
GetMomentRequest ==
    \E id \in RequestIds :
        /\ req = NoRequest
        /\ req' = Request("get_moment", <<>>, id, NULL, NULL, NULL, 0)
        /\ resp' = get_moment(store, id)
        /\ UNCHANGED <<store, kwVars, urlVars, adminVars, buildVars, serveVars, mcpVars, srcVars>>

\* GET /similar/{moment_id}?limit=
SimilarRequest ==
    \E id \in RequestIds, limit \in LimitChoices :
        /\ req = NoRequest
        /\ req' = Request("similar", <<>>, id, NULL, NULL, NULL, limit)
        /\ resp' = similar(store, id, limit)
        /\ UNCHANGED <<store, kwVars, urlVars, adminVars, buildVars, serveVars, mcpVars, srcVars>>

\* tag values found in moments files: lists over two tags, a number and a
\* bare string
TagA == <<"a">>
TagB == <<"b">>
TagValues == {JList(<<>>), JList(<<TagA>>), JList(<<TagB>>), JList(<<TagA, TagB>>),
              JNum(5), JStr(<<"a", "b">>)}

SimilarContents ==
    {Content(<<"lesson">>, stage, tags, <<"p">>, <<"t","o","t">>) :
        stage \in {NULL, <<"idea">>}, tags \in TagValues}

InitSimilar ==
    /\ KwIdle /\ UrlIdle /\ AdminIdle /\ BuildIdle /\ ServeIdle /\ McpIdle /\ SrcIdle
    /\ store \in StoresOf(SimilarContents)
    /\ req = NoRequest
    /\ resp = NoResponse

NextSimilar == GetMomentRequest \/ SimilarRequest \/ Deliver
SpecSimilar == InitSimilar /\ [][NextSimilar]_vars

\* texts a caller may send as q
QueryTexts == {
    <<>>,
    <<" ">>,
    <<" ", "\t">>,
    <<"t","o","t">>,
    <<" ","o","t","t","o"," ">>,
    <<"T","O","T"," ","o","t","t","o">>,
    <<"t","o","'","t">>,
    <<"a">>
}

\* texts a caller may send as situation
SituationTexts == {
    <<>>,
    <<" ", "\t">>,
    <<"t","h","e"," ","a","n","d"," ","b","u","t">>,
    <<"t","o","o"," ","t","o">>,
    <<"t","o","t">>,
    <<"'","'","'">>,
    <<"t","o","'","t"," ","t","o","t">>,
    <<"t","h","e"," ","o","t","t","o"," ","t","o","t">>,
    <<"'","t","o","o","'"," ","t","o","t">>
}

\* GET /search?q=&stage=&type=&podcast=&limit=
SearchRequest ==
    \E q \in QueryTexts, stage \in {NULL, <<"idea">>}, type \in {NULL, <<"lesson">>},
       podcast \in {NULL, <<"o","t">>, <<"_">>}, limit \in LimitChoices :
        /\ req = NoRequest
        /\ req' = Request("search", q, 0, stage, type, podcast, limit)
        /\ resp' \in search(store, q, stage, type, podcast, limit)
        /\ UNCHANGED <<store, kwVars, urlVars, adminVars, buildVars, serveVars, mcpVars, srcVars>>

\* POST /situation {situation, stage, limit}
SituationRequest ==
    \E situation \in SituationTexts, stage \in {NULL, <<"idea">>}, limit \in LimitChoices :
        /\ req = NoRequest
        /\ req' = Request("situation_match", situation, 0, stage, NULL, NULL, limit)
        /\ resp' \in situation_match(store, situation, stage, limit)
        /\ UNCHANGED <<store, kwVars, urlVars, adminVars, buildVars, serveVars, mcpVars, srcVars>>

QueryContents == {
    Content(<<"lesson">>,   <<"idea">>, JList(<<TagA>>), <<"T","o","t","o">>,
            <<"t","o","t"," ","o","t","t","o">>),
    Content(<<"decision">>, <<"idea">>, JList(<<>>),     <<"o","t">>,
            <<"T","o","t">>),
    Content(<<"lesson">>,   <<"mvp">>,  JList(<<TagA, TagB>>), <<"p">>,
            <<"o","t","t","o">>),
    Content(<<"lesson">>,   NULL,       JNum(5),         <<"o","t">>,
            <<"t","o","o"," ","t","o","t">>)
}

InitQuery ==
    /\ KwIdle /\ UrlIdle /\ AdminIdle /\ BuildIdle /\ ServeIdle /\ McpIdle /\ SrcIdle
    /\ store \in StoresOf(QueryContents)
    /\ req = NoRequest
    /\ resp = NoResponse

NextQuery == SearchRequest \/ SituationRequest \/ Deliver
SpecQuery == InitQuery /\ [][NextQuery]_vars

InitKeywords == KwInit /\ UrlIdle /\ ApiIdle /\ AdminIdle /\ BuildIdle /\ ServeIdle /\ McpIdle /\ SrcIdle
NextKeywords == Extract \/ ReExtract
SpecKeywords == InitKeywords /\ [][NextKeywords]_vars

InitUrl == KwIdle /\ UrlInit /\ ApiIdle /\ AdminIdle /\ BuildIdle /\ ServeIdle /\ McpIdle /\ SrcIdle
NextUrl == BuildUrl
SpecUrl == InitUrl /\ [][NextUrl]_vars

InitAdmin ==
    /\ KwIdle /\ UrlIdle /\ ApiIdle /\ BuildIdle /\ ServeIdle /\ McpIdle /\ SrcIdle
    /\ ADMIN_TOKEN \in AdminTokens
    /\ authorization = NoHeader
    /\ adminOut = NoOutcome

NextAdmin == AdminRequest \/ AdminDeliver
SpecAdmin == InitAdmin /\ [][NextAdmin]_vars

InitBuild == KwIdle /\ UrlIdle /\ ApiIdle /\ AdminIdle /\ BuildInit /\ ServeIdle /\ McpIdle /\ SrcIdle
NextBuild ==
    StartBuild \/ IngestEpisode \/ PopulateFts \/ StartSample \/ IngestSampleFile \/ Commit
SpecBuild == InitBuild /\ [][NextBuild]_vars

InitServe ==
    /\ KwIdle /\ UrlIdle /\ AdminIdle /\ BuildIdle /\ McpIdle /\ SrcIdle
    /\ store = ServeStore /\ req = NoRequest /\ resp = NoResponse
    /\ ServeIdle

NextServe == ServeStep
SpecServe == InitServe /\ [][NextServe]_vars

InitMcp ==
    /\ KwIdle /\ UrlIdle /\ AdminIdle /\ BuildIdle /\ ServeIdle
    /\ store = ServeStore /\ req = NoRequest /\ resp = NoResponse
    /\ McpIdle /\ SrcIdle

NextMcp == SearchExperience \/ GetExperienceDetail \/ FindSimilarExperiences \/ ToolDeliver
SpecMcp == InitMcp /\ [][NextMcp]_vars

InitSource ==
    /\ KwIdle /\ UrlIdle /\ ApiIdle /\ AdminIdle /\ BuildIdle /\ ServeIdle /\ McpIdle
    /\ SrcInit

NextSource == ResolveSource
SpecSource == InitSource /\ [][NextSource]_vars

\* ------------------------------------------------------------------ claims
\* C1: every token extract_keywords returns is at least 3 long and is no
\* stopword, tokens trimmed of apostrophes included.
\* The code filters before it trims: "'to'" passes as a 4-character word that
\* is no stopword and is returned as "to".
C1_TokensLongAndNoStopwords ==
    kwPc # "start" =>
        \A k \in DOMAIN kwOut : Len(kwOut[k]) >= 3 /\ Lower(kwOut[k]) \notin STOPWORDS

\* C2: extract_keywords run on its own output joined by spaces returns the
\* same set of terms.
\* A trimmed token that is short or a stopword is dropped by the second run.
C2_ReExtractSameTerms ==
    kwPc = "done" => Range(kwAgain) = Range(kwOut)

\* C3: every token extract_keywords returns holds lowercase letters a-z only,
\* so the tokens joined with " OR " are a well-formed match expression.
\* An apostrophe inside a word ("to't") survives the trimming, and a word of
\* apostrophes alone is returned as the empty token.
C3_TokensLowercaseLetters ==
    kwPc # "start" =>
        /\ \A k \in DOMAIN kwOut : \A j \in DOMAIN kwOut[k] :
              kwOut[k][j] \in Range(LowerLetters)
        /\ kwOut # <<>> => FtsSyntaxOk(Join(kwOut, <<" ">> \o OR \o <<" ">>))

\* C4 and C5 are about requests the framework hands to the handler: the
\* limit is in range.
Served(endpoint) == req.endpoint = endpoint /\ LimitValid(req.limit)

\* C4: a situation-match request whose text yields no keyword ends in a 400
\* usage error with no store connection and no store query, never in a
\* success; the detail is the no-keywords one unless the text is blank, which
\* is refused one check earlier as the empty situation.
C4_NoKeywordsIsUsageError ==
    (Served("situation_match") /\ extract_keywords(req.text) = <<>>) =>
        /\ resp.status = 400
        /\ resp.detail = (IF \A k \in DOMAIN req.text : req.text[k] \in Whitespace
                          THEN "'situation' cannot be empty"
                          ELSE "No meaningful keywords found in situation description")
        /\ resp.opened = 0 /\ resp.queries = <<>>
        /\ resp.count = 0 /\ resp.moments = <<>>

\* a text of stopwords only was refused as having no keywords
C4_Witness ==
    /\ Served("situation_match")
    /\ req.text = <<"t","h","e"," ","a","n","d"," ","b","u","t">>
    /\ store # <<>>
    /\ resp.status = 400
    /\ resp.detail = "No meaningful keywords found in situation description"

\* C5: a direct search whose query is empty or whitespace only ends in a 400
\* usage error before any store connection is opened or row read, and hands
\* nothing to the log.
C5_BlankQueryIsUsageError ==
    (Served("search") /\ \A k \in DOMAIN req.text : req.text[k] \in Whitespace) =>
        /\ resp.status = 400
        /\ resp.opened = 0 /\ resp.queries = <<>>
        /\ resp.logged = <<>>
        /\ resp.count = 0 /\ resp.moments = <<>>

\* a whitespace-only query was refused while the store held rows
C5_Witness ==
    /\ Served("search")
    /\ req.text = <<" ", "\t">>
    /\ store # <<>>
    /\ resp.status = 400

\* the row of the store with this identifier
RowOf(id) == SelectById(store, id)[1]

\* the tag set of a row: the items of its stored list
RowTagSet(row) ==
    IF json_loads(row.tags).kind = "value" /\ json_loads(row.tags).val.kind = "list"
    THEN Range(json_loads(row.tags).val.items)
    ELSE {}

\* overlap of a row's tags with those of the source of the request
Overlap(id) == Cardinality(RowTagSet(RowOf(id)) \cap RowTagSet(RowOf(req.moment_id)))

SameStageAsSource(id) == RowOf(id).stage = RowOf(req.moment_id).stage

SimilarAnswered == req.endpoint = "similar" /\ resp.status = 200

\* C6: for a source with a non-empty tag set, the result of similar() holds
\* neither the source nor a candidate sharing no tag with it.
C6_NoSourceNoDisjoint ==
    (SimilarAnswered /\ RowTagSet(RowOf(req.moment_id)) # {}) =>
        \A k \in DOMAIN resp.moments :
            /\ resp.moments[k] # req.moment_id
            /\ Overlap(resp.moments[k]) > 0

\* a result was returned while the store held a tagged row sharing no tag
\* with the source
C6_Witness ==
    /\ SimilarAnswered
    /\ resp.moments # <<>>
    /\ \E k \in DOMAIN store :
          /\ store[k].id # req.moment_id
          /\ RowTagSet(store[k]) # {}
          /\ RowTagSet(store[k]) \cap RowTagSet(RowOf(req.moment_id)) = {}

\* C7 as stated: of two returned moments, the earlier has strictly more
\* overlap, or equal overlap and the source's stage while the later has not.
\* Two candidates equal on both keys are both returned, in scan order.
C7_StrictRanking ==
    SimilarAnswered =>
        \A i, j \in DOMAIN resp.moments :
            i < j =>
                \/ Overlap(resp.moments[i]) > Overlap(resp.moments[j])
                \/ /\ Overlap(resp.moments[i]) = Overlap(resp.moments[j])
                   /\ SameStageAsSource(resp.moments[i])
                   /\ ~SameStageAsSource(resp.moments[j])

\* C7 amended: of two returned moments, the earlier has strictly more
\* overlap, or equal overlap and the later has the source's stage only if the
\* earlier has it too.
C7_Ranking ==
    SimilarAnswered =>
        \A i, j \in DOMAIN resp.moments :
            i < j =>
                \/ Overlap(resp.moments[i]) > Overlap(resp.moments[j])
                \/ /\ Overlap(resp.moments[i]) = Overlap(resp.moments[j])
                   /\ SameStageAsSource(resp.moments[j]) => SameStageAsSource(resp.moments[i])

\* two moments equal on both keys were returned
C7_Witness ==
    /\ SimilarAnswered
    /\ \E i, j \in DOMAIN resp.moments :
          /\ i < j
          /\ Overlap(resp.moments[i]) = Overlap(resp.moments[j])
          /\ SameStageAsSource(resp.moments[i]) = SameStageAsSource(resp.moments[j])

\* C8: when the source of similar() has no tags, the outcome is a success
\* with count 0 and no moments, and the candidates are never queried.
C8_NoTagsEmptySuccess ==
    (Served("similar") /\ SelectById(store, req.moment_id) # <<>>
       /\ RowOf(req.moment_id).tags = <<"[", "]">>) =>
        /\ resp.status = 200
        /\ resp.count = 0 /\ resp.moments = <<>>
        /\ resp.queries = <<"by_id">>

\* a source without tags was asked for while another row shared tags with
\* others
C8_Witness ==
    /\ Served("similar")
    /\ SelectById(store, req.moment_id) # <<>>
    /\ RowOf(req.moment_id).tags = <<"[", "]">>
    /\ \E k \in DOMAIN store : RowTagSet(store[k]) # {}
    /\ resp.status = 200

\* C9: an identifier that is no stored moment's ends get_moment and similar
\* in 404, never in a success and never with another record.
C9_UnknownIdNotFound ==
    ((Served("similar") \/ req.endpoint = "get_moment")
       /\ \A k \in DOMAIN store : store[k].id # req.moment_id) =>
        /\ resp.status = 404
        /\ resp.count = 0 /\ resp.moments = <<>>

\* similar() was asked for an identifier the non-empty store does not hold
C9_Witness ==
    /\ Served("similar")
    /\ store # <<>>
    /\ \A k \in DOMAIN store : store[k].id # req.moment_id
    /\ resp.status = 404

\* a timestamp of the form m:s or h:m:s: two or three integers
HasTimestampForm(ts) ==
    /\ ts.kind = "str"
    /\ Len(Split(Strip(ts.chars, Whitespace), ":", <<>>)) \in {2, 3}
    /\ \A k \in DOMAIN Split(Strip(ts.chars, Whitespace), ":", <<>>) :
          IntOfStr(Split(Strip(ts.chars, Whitespace), ":", <<>>)[k]).kind = "value"

ClaimedSeconds(ts) ==
    LET n == [k \in DOMAIN Split(Strip(ts.chars, Whitespace), ":", <<>>) |->
                 IntOfStr(Split(Strip(ts.chars, Whitespace), ":", <<>>)[k]).val]
    IN  IF Len(n) = 2 THEN 60 * n[1] + n[2] ELSE 3600 * n[1] + 60 * n[2] + n[3]

\* C10: build_url_at_moment gives nothing for a URL that is no YouTube watch
\* URL; else the URL with "&t=<seconds>s" for a timestamp m:s or h:m:s; else,
\* for any other timestamp, the URL unchanged.
\* A timestamp that is a number and not a string leaves the function with
\* AttributeError instead.
C10_UrlAtMoment ==
    urlPc = "done" =>
        urlOut = (IF urlIn = NULL \/ ~StartsWith(urlIn, YouTubePrefix) THEN None
                  ELSE IF HasTimestampForm(tsIn)
                       THEN Value(urlIn \o <<"&", "t=">> \o IntStr(ClaimedSeconds(tsIn))
                                        \o <<"s">>)
                       ELSE Value(urlIn))

\* the match expression a served search or situation match hands to the engine
MatchExpression ==
    IF req.endpoint = "search" THEN Strip(req.text, Whitespace)
    ELSE Join(extract_keywords(req.text), <<" ">> \o OR \o <<" ">>)

\* C11: a limit outside 1..20 is clamped into 1..20 on the situation-match
\* path, where the request is served with the clamped limit, and is rejected
\* on the direct search and similarity paths.
\* SituationRequest.limit is Field(5, ge=1, le=20): the body is refused (422)
\* before situation_match and its clamp run.
C11_LimitClampedOrRejected ==
    (req # NoRequest /\ ~LimitValid(req.limit)) =>
        CASE req.endpoint = "situation_match" ->
                (extract_keywords(req.text) # <<>> /\ FtsSyntaxOk(MatchExpression)) =>
                    /\ resp.status = 200
                    /\ Len(resp.moments) <= ClampLimit(req.limit)
          [] req.endpoint \in {"search", "similar"} -> resp.status = 422
          [] OTHER -> TRUE

\* C16: an operation that opens a store connection performs exactly one
\* query on it and has closed it when it returns, on every path.
\* When the engine rejects the match expression, the except clause raises the
\* 400 without conn.close(): the connection is left to the garbage collector.
C16_OneQueryAndClosed ==
    (req # NoRequest /\ resp.opened > 0) =>
        /\ resp.closed = resp.opened
        /\ Len(resp.queries) = 1

\* a served request whose match expression reaches the engine and is rejected
EngineRejects ==
    /\ Served("search") \/ Served("situation_match")
    /\ ~IsBlank(req.text)
    /\ req.endpoint = "situation_match" => extract_keywords(req.text) # <<>>
    /\ ~FtsSyntaxOk(MatchExpression)

\* C19: a direct search or situation match whose match expression the engine
\* rejects ends in a 400 query error carrying the reason, never in an
\* unhandled exception, and returns no rows.
C19_MalformedQueryIsClientError ==
    EngineRejects =>
        /\ resp.status = 400
        /\ resp.detail = (IF req.endpoint = "search" THEN "Invalid query" ELSE "Search error")
        /\ resp.count = 0 /\ resp.moments = <<>>
        /\ resp.logged = <<>>

\* a situation whose keyword keeps an apostrophe was refused while the store
\* held rows
C19_Witness ==
    /\ EngineRejects
    /\ req.endpoint = "situation_match"
    /\ store # <<>>
    /\ resp.status = 400

\* C20: with no admin token configured every admin request is refused 503
\* whatever credentials it carries; with a token configured, a request with
\* missing or non-matching credentials is refused 401 and only a request
\* carrying exactly the configured token is admitted.
C20_AdminAccess ==
    adminOut # NoOutcome =>
        adminOut.status =
            (IF ADMIN_TOKEN = <<>> THEN 503
             ELSE IF authorization.scheme = "bearer" /\ authorization.param = ADMIN_TOKEN
                  THEN 200
                  ELSE 401)

\* a token that differs from the configured one in case only was refused
C20_Witness ==
    /\ ADMIN_TOKEN = <<"a", "b">>
    /\ authorization = Header("bearer", <<"A", "b">>)
    /\ adminOut.status = 401

\* the moments of the episodes whose file parsed and was not empty
RECURSIVE MomentsToIngest(_)
MomentsToIngest(files) ==
    IF files = <<>> THEN 0
    ELSE (IF Head(files).kind = "parsed" THEN Len(Head(files).moments) ELSE 0)
         + MomentsToIngest(Tail(files))

\* the episodes whose moments file is missing, unparseable or empty
SkippedEpisodes ==
    {k \in DOMAIN episodes :
        episodes[k].kind \in {"missing", "unparseable"} \/ episodes[k].moments = <<>>}

\* C12: build_db skips every episode whose moments file is missing,
\* unparseable or empty, goes on with the next one, and its skipped-file
\* counter ends as the number of such episodes.
\* A directory without moments.json is passed over by a bare "continue": it
\* is skipped but not counted.
C12_SkippedFilesCounted ==
    (bMode = "build_db" /\ bPc \in {"commit", "done"}) =>
        stats.skipped_files = Cardinality(SkippedEpisodes)

\* C13: build_db ingests every moment of every parsed, non-empty moments
\* file: no field value makes an insert fail or aborts the batch, and the
\* store ends with as many moments as those files hold.
\* A null type or summary violates NOT NULL, a numeric timestamp or a null
\* guest raises in the helpers, numeric tags raise in the statistics: each
\* ends the build with nothing committed.
C13_EveryMomentIngested ==
    bMode = "build_db" =>
        /\ bPc # "crashed"
        /\ bPc = "done" => Len(disk.moments) = MomentsToIngest(episodes)

\* C14: on build_db and build_sample_db every stored moment has an
\* identifier generated at ingestion, never one read from a file, and no two
\* stored moments share an identifier.
\* build_sample_db stores the file's "id" when the moment has one.
C14_FreshUniqueIds ==
    bPc = "done" =>
        /\ \A k \in DOMAIN disk.moments : disk.moments[k].id.origin = "uuid4"
        /\ \A j, k \in DOMAIN disk.moments :
              disk.moments[j].id = disk.moments[k].id => j = k

\* C15: in every committed state of the store of a build the index holds
\* exactly one row for each row of the moments table, under the same row
\* identity, and none besides; rows of the two become visible in the same
\* commit.
C15_IndexInSync ==
    bMode # "none" =>
        /\ Len(disk.fts) = Len(disk.moments)
        /\ \A k \in DOMAIN disk.moments : disk.fts[k].rowid = disk.moments[k].rowid
        /\ \A j, k \in DOMAIN disk.moments :
              disk.moments[j].rowid = disk.moments[k].rowid => j = k

\* a build over two episodes committed their moments, and before that held
\* table rows without index rows in its open transaction
C15_Witness ==
    /\ bMode = "build_db" /\ bPc = "done"
    /\ Len(episodes) = 2
    /\ Len(disk.moments) >= 2
    /\ stats.total = Len(disk.moments)

\* C17: a log write runs detached from the request: a handler that has
\* called log_entry can return at once, whatever the state of the write; the
\* response it holds is the one its handler computed from the store, whether
\* the write has succeeded, has failed or is still pending; a failed write
\* ends in the log thread.
C17_LogWriteDetached ==
    \A h \in Handlers :
        /\ handlers[h].pc = "logged" => ENABLED Return(h)
        /\ handlers[h].pc # "idle" => handlers[h].resp \in Outcomes(store, handlers[h].req)
        /\ handlers[h].pc = "logged" =>
              \/ \E t \in threads : t.id = handlers[h].thread
              \/ \E k \in DOMAIN sink : sink[k].id = handlers[h].thread
              \/ handlers[h].thread \in failed

\* one handler holds its success while its log write has failed, and the
\* other holds its own while its write is still pending
C17_Witness ==
    \E h, g \in Handlers :
        /\ handlers[h].pc = "logged" /\ handlers[h].resp.status = 200
        /\ handlers[h].thread \in failed
        /\ handlers[g].pc = "logged" /\ handlers[g].resp.status = 200
        /\ \E t \in threads : t.id = handlers[g].thread

\* C18: the store is the same before and after every step of search,
\* get_moment, similar, situation_match and stats and of the log threads, in
\* every interleaving, whether the operations succeed or fail; only the log
\* sink changes.
C18_StoreNeverWritten == [][store' = store]_vars

\* a request failed, another succeeded and its log row was written, and a
\* stats request is in progress
C18_Witness ==
    /\ sink # <<>>
    /\ \E h, g \in Handlers :
          /\ handlers[h].req.endpoint = "stats" /\ handlers[h].pc = "computed"
          /\ handlers[g].resp.status = 400

\* the underlying call of the tool failed: no response, or a status outside
\* 2xx
CallFailed == http.net # "response" \/ raise_for_status(http)

\* C21: each of the three tools answers every failure of the underlying call
\* (refused connection, non-2xx status, timeout, other transport failure)
\* with a text that begins with "Error: " and never lets an exception reach
\* the agent runtime.
C21_FailureIsErrorText ==
    (tool # NoTool /\ CallFailed) => (toolOut.kind = "return" /\ toolOut.error)

\* C22: search_experience always performs a situation match (keywords
\* extracted, any-term match), with or without a type filter; a type never
\* turns the call into a verbatim all-term direct query.
C22_AlwaysSituationMatch ==
    tool.name = "search_experience" => http.request.endpoint = "situation_match"

\* the placeholder marker occurs in a guest
HasMarker(guest) ==
    \/ guest.kind = "str" /\ \E k \in DOMAIN guest.chars : guest.chars[k] = "TODO"
    \/ guest.kind = "list" /\ \E k \in DOMAIN guest.items : guest.items[k] = <<"TODO">>

\* the raw guest of the moment, empty when it has none
RawGuest == IF srcMoment.guest = JAbsent THEN JStr(<<>>) ELSE srcMoment.guest

\* C23: the resolved guest is the guest of meta.json when that is non-empty
\* and free of the marker 'TODO'; otherwise the raw guest when that is free of
\* the marker; otherwise empty.  The resolved guest never contains 'TODO'.
C23_GuestRule ==
    srcOut.kind = "value" =>
        /\ srcOut.val.guest =
              (IF srcMeta.guest # JAbsent /\ Truthy(srcMeta.guest) /\ ~HasMarker(srcMeta.guest)
               THEN srcMeta.guest
               ELSE IF ~HasMarker(RawGuest) THEN RawGuest
               ELSE JStr(<<>>))
        /\ ~HasMarker(srcOut.val.guest)

\* an unresolved guest in meta.json gives way to the raw guest
C23_Witness ==
    /\ srcOut.kind = "value"
    /\ HasMarker(srcMeta.guest)
    /\ srcMoment.guest = JStr(<<"g">>)
    /\ srcOut.val.guest = JStr(<<"g">>)

\* the candidates that survive scoring: the rows other than the source that
\* share a tag with it
Survivors ==
    {store[k].id : k \in {n \in DOMAIN store :
        store[n].id # req.moment_id /\ Overlap(store[n].id) > 0}}

\* the position at which the scan of the store produces a row
ScanPos(id) == CHOOSE k \in DOMAIN store : store[k].id = id

\* a comes before b in the full sorted list: more overlap; or equal overlap
\* and the source's stage where b has another; or equal on both and scanned
\* earlier
RanksBefore(a, b) ==
    \/ Overlap(a) > Overlap(b)
    \/ /\ Overlap(a) = Overlap(b)
       /\ SameStageAsSource(a) /\ ~SameStageAsSource(b)
    \/ /\ Overlap(a) = Overlap(b)
       /\ SameStageAsSource(a) = SameStageAsSource(b)
       /\ ScanPos(a) < ScanPos(b)

\* C24: similar() returns exactly the first min(limit, number of survivors)
\* entries of the full list of survivors sorted by overlap, then same stage,
\* both descending, entries equal on both keys in scan order; the list is cut
\* only after it is sorted.
C24_SortedThenTruncated ==
    SimilarAnswered =>
        /\ Len(resp.moments) =
              (IF req.limit < Cardinality(Survivors) THEN req.limit
               ELSE Cardinality(Survivors))
        /\ \A i \in DOMAIN resp.moments : resp.moments[i] \in Survivors
        /\ \A i, j \in DOMAIN resp.moments :
              i < j => RanksBefore(resp.moments[i], resp.moments[j])
        /\ \A id \in Survivors :
              (\A i \in DOMAIN resp.moments : resp.moments[i] # id) =>
                  \A i \in DOMAIN resp.moments : RanksBefore(resp.moments[i], id)

\* two survivors equal on both keys, the limit lets one through: the one
\* scanned first is returned
C24_Witness ==
    /\ SimilarAnswered
    /\ req.limit = 1 /\ Len(resp.moments) = 1
    /\ \E id \in Survivors :
          /\ id # resp.moments[1]
          /\ Overlap(id) = Overlap(resp.moments[1])
          /\ SameStageAsSource(id) = SameStageAsSource(resp.moments[1])
          /\ ScanPos(resp.moments[1]) < ScanPos(id)

\* the stored tag field of a row is not a list of tags: it does not load, or
\* it loads as a bare string or a number
TagFieldInvalid(row) ==
    json_loads(row.tags).kind # "value" \/ json_loads(row.tags).val.kind # "list"

\* C25: in similar(), a candidate whose stored tag field is not a valid list
\* of tags contributes nothing to scoring, never appears in the result, and
\* does not make the request fail.
C25_InvalidCandidateIgnored ==
    (/\ Served("similar") /\ LimitValid(req.limit)
     /\ SelectById(store, req.moment_id) # <<>>
     /\ ~TagFieldInvalid(RowOf(req.moment_id))) =>
        /\ resp.status = 200
        /\ \A i \in DOMAIN resp.moments : ~TagFieldInvalid(RowOf(resp.moments[i]))

\* the text holds the given substring, letters compared without regard to
\* case
ContainsText(text, sub) ==
    /\ text # NULL
    /\ \E k \in 0..(Len(text) - Len(sub)) :
          Lower(SubSeq(text, k + 1, k + Len(sub))) = Lower(sub)

\* a returned moment satisfies the match and every filter of the request
SatisfiesRequest(row) ==
    /\ FtsMatch(MatchExpression, row)
    /\ Given(req.stage) => row.stage = req.stage
    /\ Given(req.type) => row.type = req.type
    /\ Given(req.podcast) => ContainsText(row.podcast, req.podcast)

QueryAnswered == (Served("search") \/ Served("situation_match")) /\ resp.status = 200

\* C26: every moment returned by a direct search satisfies the full-text
\* match and every supplied filter at once (stage equal, type equal, podcast
\* name containing the given substring), and no more moments are returned than
\* the limit; the same for a situation match with its stage filter.  The order
\* is the engine's: the handlers return the rows as fetched.
C26_MatchAndFiltersWithinLimit ==
    QueryAnswered =>
        /\ Len(resp.moments) <= req.limit
        /\ \A i \in DOMAIN resp.moments : SatisfiesRequest(RowOf(resp.moments[i]))
        /\ \A i, j \in DOMAIN resp.moments : i # j => resp.moments[i] # resp.moments[j]

\* the endpoint a log event of the request carries
LoggedAs ==
    CASE req.endpoint = "search" -> "/search"
      [] req.endpoint = "situation_match" -> "/situation"
      [] req.endpoint = "get_moment" -> "/moments"
      [] req.endpoint = "similar" -> "/similar"
      [] OTHER -> ""

\* C27: a search, get_moment, similar or situation_match request that ends
\* in a success triggers exactly one log event carrying its endpoint and its
\* result count (a similar() on a source without tags included), and a request
\* that ends in an error triggers none.
C27_LoggedIffSuccess ==
    req # NoRequest =>
        resp.logged = (IF resp.status = 200 THEN <<LogEvent(LoggedAs, resp.count)>> ELSE <<>>)

====
